---- MODULE Spec2Model ----
(***************************************************************************)
(* Verification model of the two AVS verifier contracts:                   *)
(*   - contracts/verifier-simple   (Exact-Match tally)                     *)
(*   - oracle-verifier-example     (Median-Spread tally with slashing)     *)
(* together with the two contracts they query: the operators (voting       *)
(* power) contract and the task queue.                                     *)
(*                                                                         *)
(* One contract instance is deployed per behaviour (variable `verifier`).  *)
(* Every execute entry point is one action.  A CosmWasm execute that       *)
(* returns Err reverts all of its storage writes, and a message attached   *)
(* to an Ok response runs in the same transaction; both are part of the    *)
(* action that models the entry point.                                     *)
(***************************************************************************)
EXTENDS Integers, Sequences, FiniteSets, TLC

VARIABLES
    verifier,           \* which contract is deployed: "simple" or "oracle"
    CONFIG,             \* Item<Config>; <<>> before instantiate
    TASKS,              \* Map<(task_queue, task_id), TaskMetadata>
    VOTES,              \* Map<(task_queue, task_id, operator), OperatorVote>
    OPTIONS,            \* Map<(task_queue, task_id, result), tally> (verifier-simple)
    SLASHED_OPERATORS,  \* Map<&Addr, bool> (oracle verifier), as its key set
    height,             \* env.block.height; env.block.time advances with it
    powers,             \* operators contract: height -> operator -> voting power
    changes,            \* number of power updates made on the operators contract
    queue,              \* task queue contract: task_id -> task
    messages,           \* task_id -> Complete responses delivered to the task queue
    answer,             \* the response to the caller when the last message was a query
    calc,               \* a direct call of one of the aggregation functions: arguments and result
    plan                \* the operators' intentions: the result each will submit, and who has

vars == <<verifier, CONFIG, TASKS, VOTES, OPTIONS, SLASHED_OPERATORS, height,
          powers, changes, queue, messages, answer, calc, plan>>

-----------------------------------------------------------------------------
(* Bounds of the model *)

MaxHeight == 3          \* blocks 1..MaxHeight are explored
MaxPowerChanges == 1    \* updates of an operator's power after deployment
DecimalPlaces == 2      \* fractional digits kept by the Decimal model (18 in cosmwasm_std)
MaxTotalPower == 601    \* largest total power of the operators in SpecPowerRequired
MaxPrices == 4          \* longest list of prices handed to calculate_median in SpecMedian
MaxRatioPower == 12     \* powers 0..MaxRatioPower are handed to is_threshold_met in SpecThreshold

-----------------------------------------------------------------------------
(* Actors and inputs *)

\* operator addresses in the ascending order a storage range scan lists them
OperatorOrder == <<"noop", "op1", "op2", "op3">>

Senders == {OperatorOrder[i] : i \in 1..Len(OperatorOrder)}

\* the powers of the end-to-end tests: 50/30/20 and a non-operator
InitialPower == [o \in Senders |->
    CASE o = "op1" -> 50 [] o = "op2" -> 30 [] o = "op3" -> 20 [] OTHER -> 0]

\* the updates the operators contract may receive: an operator leaves, a new one joins
PowerUpdates == {<<"op1", 0>>, <<"noop", 40>>}

\* task ids named in submissions; the task queue creates them in this order
TaskIds == {1, 2}

\* task timeouts (seconds) a requestor may ask for
Timeouts == {1, 2}

\* results submitted to verifier-simple; "bad" is not JSON
SimpleResults == {"a", "b", "bad"}

\* results submitted to the oracle verifier: JSON price documents, and "bad"
OracleResults == {"100", "105", "150", "0", "bad"}

ResultsOf(v) == IF v = "simple" THEN SimpleResults ELSE OracleResults

-----------------------------------------------------------------------------
(* cosmwasm_std arithmetic.  A Decimal is its atomics: value * DECIMAL_FRACTIONAL *)

DECIMAL_FRACTIONAL == 10 ^ DecimalPlaces

\* Decimal::percent(x)
Percent(x) == x * (DECIMAL_FRACTIONAL \div 100)

\* Decimal::one()
One == DECIMAL_FRACTIONAL

\* Decimal::zero()
Zero == 0

\* Uint128::mul_ceil(Decimal): multiply by atomics/DECIMAL_FRACTIONAL, round up
MulCeil(u, d) ==
    LET prod == u * d
    IN IF prod % DECIMAL_FRACTIONAL = 0
       THEN prod \div DECIMAL_FRACTIONAL
       ELSE (prod \div DECIMAL_FRACTIONAL) + 1

\* Decimal * Decimal: the product of the atomics divided by DECIMAL_FRACTIONAL, rounded down
DecMul(a, b) == (a * b) \div DECIMAL_FRACTIONAL

\* Decimal / Uint128: the atomics divided by the integer, rounded down
DecDivUint(a, n) == a \div n

\* Decimal::from_ratio rounding up
FromRatio_ceil(a, b) == ((a * DECIMAL_FRACTIONAL) + (b - 1)) \div b

\* Decimal::from_ratio(a, b), rounded down
FromRatio(a, b) == (a * DECIMAL_FRACTIONAL) \div b

-----------------------------------------------------------------------------
(* Storage maps are functions whose domain is the set of stored keys *)

EmptyMap == <<>>

Has(m, k) == k \in DOMAIN m

Save(m, k, v) == [x \in (DOMAIN m) \cup {k} |-> IF x = k THEN v ELSE m[x]]

\* no query response is pending: the last message was an execute or an instantiate
NoAnswer == <<>>

\* no aggregation function is being called on its own
NoCalc == <<>>

\* the operators follow no plan
NoPlan == <<>>

-----------------------------------------------------------------------------
(* Block environment *)

\* env.block.time.seconds(): one second per block
BlockTime(h) == h

\* TaskMetadata::is_expired
is_expired(meta, h) == BlockTime(h) >= meta.expires_time

-----------------------------------------------------------------------------
(* Operators contract (voting power at a height) *)

VotingPowerAtHeight(pw, op, h) == pw[h][op]

RECURSIVE SumPowers(_, _)
SumPowers(f, S) ==
    IF S = {} THEN 0
    ELSE LET x == CHOOSE y \in S : TRUE
         IN f[x] + SumPowers(f, S \ {x})

TotalPowerAtHeight(pw, h) == SumPowers(pw[h], Senders)

-----------------------------------------------------------------------------
(* Task queue contract *)

\* TaskQueryMsg::TaskStatus: an Open task past its expiry is reported Expired
TaskStatusQuery(q, t, h) ==
    [status |-> IF q[t].status = "Open" /\ BlockTime(h) >= q[t].expires_time
                THEN "Expired" ELSE q[t].status,
     created_height |-> q[t].created_height,
     expires_time |-> q[t].expires_time]

\* TaskExecuteMsg::Complete is accepted for a task that is still open
CompleteAccepted(q, t, h) ==
    Has(q, t) /\ TaskStatusQuery(q, t, h).status = "Open"

-----------------------------------------------------------------------------
(* Shared vote validation: verifier-simple's ensure_valid_vote; the oracle   *)
(* verifier calls the same routine with its own required_percentage          *)

\* placeholder returned next to an error
NoMeta == [power_required |-> 0, status |-> "Open", created_height |-> 0, expires_time |-> 0]

\* PowerRequired rounding down instead of up
PowerRequired_floor(total_power, required_percentage) ==
    (total_power * Percent(required_percentage)) \div DECIMAL_FRACTIONAL

\* total_power.power.mul_ceil(Decimal::percent(required_percentage))
PowerRequired(total_power, required_percentage) ==
    MulCeil(total_power, Percent(required_percentage))

\* the TaskMetadata written for a task first seen Open
NewMetadata(pw, required_percentage, task_status) ==
    [power_required |-> PowerRequired(TotalPowerAtHeight(pw, task_status.created_height),
                                      required_percentage),
     status |-> "Open",
     created_height |-> task_status.created_height,
     expires_time |-> task_status.expires_time]

\* StoredMetadataCheck without the Completed arm
StoredMetadataCheck_ignore_completed(meta, h) ==
    CASE meta.status = "Open" /\ is_expired(meta, h) -> "TaskExpired"
      [] OTHER -> "Ok"

\* the check made on a snapshot that is already stored
StoredMetadataCheck(meta, h) ==
    CASE meta.status = "Completed" -> "TaskAlreadyCompleted"
      [] meta.status = "Expired" -> "TaskExpired"
      [] meta.status = "Open" /\ is_expired(meta, h) -> "TaskExpired"
      [] OTHER -> "Ok"

\* the Some(meta) arm: the stored snapshot, or the error of its check
LoadStored(tasks, t, chk) ==
    IF chk = "Ok"
    THEN [ok |-> TRUE, err |-> "", meta |-> tasks[t], tasks |-> tasks]
    ELSE [ok |-> FALSE, err |-> chk, meta |-> NoMeta, tasks |-> tasks]

\* the snapshot is saved and returned
SaveNew(tasks, t, meta) ==
    [ok |-> TRUE, err |-> "", meta |-> meta, tasks |-> Save(tasks, t, meta)]

\* the None arm: abort unless the task queue reports the task Open
InitializeFrom(tasks, required_percentage, pw, t, task_status) ==
    CASE task_status.status = "Completed" ->
           [ok |-> FALSE, err |-> "TaskAlreadyCompleted", meta |-> NoMeta, tasks |-> tasks]
      [] task_status.status = "Expired" ->
           [ok |-> FALSE, err |-> "TaskExpired", meta |-> NoMeta, tasks |-> tasks]
      [] OTHER -> SaveNew(tasks, t, NewMetadata(pw, required_percentage, task_status))

\* Result<TaskMetadata, ContractError> together with the TASKS map it leaves
load_or_initialize_metadata(tasks, required_percentage, pw, q, t, h) ==
    IF Has(tasks, t)
    THEN LoadStored(tasks, t, StoredMetadataCheck(tasks[t], h))
    ELSE IF ~Has(q, t)
    THEN [ok |-> FALSE, err |-> "QueryError", meta |-> NoMeta, tasks |-> tasks]
    ELSE InitializeFrom(tasks, required_percentage, pw, t, TaskStatusQuery(q, t, h))

\* PowerQueryHeight reading the power at the current block
PowerQueryHeight_current(meta, h) == h

\* the height at which the voter's power is read
PowerQueryHeight(meta, h) == meta.created_height

\* CheckPower letting a sender without power vote
CheckPower_allow_zero(loaded, power) ==
    [kind |-> "Some", err |-> "", meta |-> loaded.meta, power |-> power,
     tasks |-> loaded.tasks]

\* the voter's power decides: zero is Unauthorized
CheckPower(loaded, power) ==
    IF power = 0
    THEN [kind |-> "Err", err |-> "Unauthorized", meta |-> NoMeta, power |-> 0,
          tasks |-> loaded.tasks]
    ELSE [kind |-> "Some", err |-> "", meta |-> loaded.meta, power |-> power,
          tasks |-> loaded.tasks]

\* the same, returning the error of load_or_initialize_metadata to the caller
CheckLoaded_propagate(loaded, tasks, pw, op, h) ==
    IF ~loaded.ok
    THEN [kind |-> "Err", err |-> loaded.err, meta |-> NoMeta, power |-> 0, tasks |-> tasks]
    ELSE CheckPower(loaded, VotingPowerAtHeight(pw, op, PowerQueryHeight(loaded.meta, h)))

\* after load_or_initialize_metadata: its error becomes None, else the power is read
CheckLoaded(loaded, tasks, pw, op, h) ==
    IF ~loaded.ok
    THEN [kind |-> "None", err |-> "", meta |-> NoMeta, power |-> 0, tasks |-> tasks]
    ELSE CheckPower(loaded, VotingPowerAtHeight(pw, op, PowerQueryHeight(loaded.meta, h)))

\* ensure_valid_vote without the check for an existing vote
ensure_valid_vote_overwrite(tasks, votes, required_percentage, pw, q, op, t, h) ==
    CheckLoaded(load_or_initialize_metadata(tasks, required_percentage, pw, q, t, h),
                tasks, pw, op, h)

\* Result<Option<(TaskMetadata, Uint128)>, ContractError>: kind is "Err", "None" or "Some"
ensure_valid_vote(tasks, votes, required_percentage, pw, q, op, t, h) ==
    IF Has(votes, <<t, op>>)
    THEN [kind |-> "Err", err |-> "OperatorAlreadyVoted", meta |-> NoMeta, power |-> 0,
          tasks |-> tasks]
    ELSE CheckLoaded(load_or_initialize_metadata(tasks, required_percentage, pw, q, t, h),
                     tasks, pw, op, h)

-----------------------------------------------------------------------------
(* verifier-simple *)

\* from_json::<ResponseType>(&result): any JSON document is accepted
ParsesAsResponseType(result) == result # "bad"

\* the maps record_vote leaves and the tally it returns
Recorded(votes, options, t, result, tally) ==
    [votes |-> votes, options |-> Save(options, <<t, result>>, [power |-> tally]),
     tally |-> tally]

\* state::record_vote: store the vote, add its power to the tally of its result
record_vote(votes, options, t, op, result, power) ==
    Recorded(Save(votes, <<t, op>>, [power |-> power, result |-> result]), options, t, result,
             power + (IF Has(options, <<t, result>>) THEN options[<<t, result>>].power ELSE 0))

\* SimpleThresholdReached with a strict comparison
SimpleThresholdReached_strict(tally, task_data) == tally > task_data.power_required

\* the finalisation test of verifier-simple
SimpleThresholdReached(tally, task_data) == tally >= task_data.power_required

\* CompletedMetadata rebuilding the snapshot without the required power
CompletedMetadata_reset(task_data) ==
    [task_data EXCEPT !.status = "Completed", !.power_required = 0]

\* the snapshot saved on finalisation
CompletedMetadata(task_data) == [task_data EXCEPT !.status = "Completed"]

\* the contract's storage as one value
Store(tasks, votes, options, slashed) ==
    [TASKS |-> tasks, VOTES |-> votes, OPTIONS |-> options, SLASHED_OPERATORS |-> slashed]

\* what an entry point returns: Ok/Err, which one, the storage it wrote and
\* the Complete responses attached to an Ok response
Ret(ok, outcome, store, complete) ==
    [ok |-> ok, outcome |-> outcome, store |-> store, complete |-> complete]

\* SimpleTally sending Complete without saving the Completed status
SimpleTally_keep_open(voted, valid, t, result, tally) ==
    IF SimpleThresholdReached(tally, valid.meta)
    THEN Ret(TRUE, "Completed", voted, <<result>>)
    ELSE Ret(TRUE, "NotCompleted", voted, <<>>)

\* the response once the vote is recorded: Complete is sent when the tally suffices
SimpleTally(voted, valid, t, result, tally) ==
    IF SimpleThresholdReached(tally, valid.meta)
    THEN Ret(TRUE, "Completed",
             [voted EXCEPT !.TASKS = Save(valid.tasks, t, CompletedMetadata(valid.meta))],
             <<result>>)
    ELSE Ret(TRUE, "NotCompleted", voted, <<>>)

\* the storage after record_vote, handed on with the tally
SimpleRecorded(st, valid, t, result, rec) ==
    SimpleTally([st EXCEPT !.VOTES = rec.votes, !.OPTIONS = rec.options,
                           !.TASKS = valid.tasks],
                valid, t, result, rec.tally)

\* executed_task after ensure_valid_vote
SimpleVote(st, op, t, result, valid) ==
    CASE valid.kind = "Err" -> Ret(FALSE, valid.err, [st EXCEPT !.TASKS = valid.tasks], <<>>)
      [] valid.kind = "None" -> Ret(TRUE, "Default", st, <<>>)
      [] OTHER -> SimpleRecorded(st, valid, t, result,
                                 record_vote(st.VOTES, st.OPTIONS, t, op, result, valid.power))

simple_executed_task(st, config, pw, q, op, t, result, h) ==
    IF ~ParsesAsResponseType(result)
    THEN Ret(FALSE, "ParseError", st, <<>>)
    ELSE SimpleVote(st, op, t, result,
                    ensure_valid_vote(st.TASKS, st.VOTES, config.required_percentage,
                                      pw, q, op, t, h))

\* task_info reporting Expired past the expiry whatever the stored status
task_info_expire_any(tasks, options, t, h) ==
    [status |-> IF is_expired(tasks[t], h) THEN "Expired" ELSE tasks[t].status,
     power_needed |-> tasks[t].power_required,
     tallies |-> {[result |-> k[2], power |-> options[k].power] : k \in DOMAIN options}]

\* query::task_info: status, power_needed and the tallies the range scan returns
task_info(tasks, options, t, h) ==
    [status |-> IF tasks[t].status = "Open" /\ is_expired(tasks[t], h)
                THEN "Expired" ELSE tasks[t].status,
     power_needed |-> tasks[t].power_required,
     tallies |-> {[result |-> k[2], power |-> options[k].power] : k \in DOMAIN options}]

\* query::operator_vote
operator_vote(votes, t, op) == votes[<<t, op>>]

-----------------------------------------------------------------------------
(* oracle verifier *)

\* serde_json::from_str::<PriceResult>(&result)
ParsesAsPriceResult(result) ==
    result \in {"98", "100", "102", "105", "150", "0", "89.99", "90", "110", "110.01"}

\* the Decimal price of a parsed PriceResult
PriceOf(result) ==
    CASE result = "98" -> 98 * DECIMAL_FRACTIONAL
      [] result = "100" -> 100 * DECIMAL_FRACTIONAL
      [] result = "102" -> 102 * DECIMAL_FRACTIONAL
      [] result = "105" -> 105 * DECIMAL_FRACTIONAL
      [] result = "150" -> 150 * DECIMAL_FRACTIONAL
      [] result = "89.99" -> Percent(8999)
      [] result = "90" -> 90 * DECIMAL_FRACTIONAL
      [] result = "110" -> 110 * DECIMAL_FRACTIONAL
      [] result = "110.01" -> Percent(11001)
      [] OTHER -> Zero

\* VOTES.prefix((task_queue, task_id)).range(.., Order::Ascending): <<operator, vote>> pairs
RECURSIVE all_votes_from(_, _, _)
all_votes_from(votes, t, i) ==
    IF i > Len(OperatorOrder) THEN <<>>
    ELSE (IF Has(votes, <<t, OperatorOrder[i]>>)
          THEN << <<OperatorOrder[i], votes[<<t, OperatorOrder[i]>>]>> >>
          ELSE <<>>) \o all_votes_from(votes, t, i + 1)

all_votes(votes, t) == all_votes_from(votes, t, 1)

\* the sum of vote.power over a list of <<operator, vote>> pairs
RECURSIVE SumVotePower(_)
SumVotePower(vs) ==
    IF vs = <<>> THEN 0 ELSE Head(vs)[2].power + SumVotePower(Tail(vs))

\* calculate_median after values.sort()
MedianOfSorted(sorted) ==
    IF Len(sorted) = 0 THEN Zero
    ELSE IF Len(sorted) % 2 = 0
    THEN DecDivUint(sorted[Len(sorted) \div 2] + sorted[(Len(sorted) \div 2) + 1], 2)
    ELSE sorted[(Len(sorted) \div 2) + 1]

\* calculate_median without values.sort()
calculate_median_unsorted(values) == MedianOfSorted(values)

calculate_median(values) == MedianOfSorted(SortSeq(values, LAMBDA x, y : x < y))

calculate_allowed_range(median, spread) ==
    <<DecMul(median, One - spread), DecMul(median, One + spread)>>

\* filter_valid_votes leaving out the prices equal to a bound
filter_valid_votes_exclusive(vs, allowed_minimum, allowed_maximum) ==
    SelectSeq(vs, LAMBDA v : v[2].price > allowed_minimum /\ v[2].price < allowed_maximum)

filter_valid_votes(vs, allowed_minimum, allowed_maximum) ==
    SelectSeq(vs, LAMBDA v : v[2].price >= allowed_minimum /\ v[2].price <= allowed_maximum)

is_threshold_met(valid_power, total_power, threshold_percent) ==
    FromRatio(valid_power, total_power) >= threshold_percent

\* the addresses of a list of <<operator, vote>> pairs
OperatorsOf(vs) == [i \in 1..Len(vs) |-> vs[i][1]]

\* identify_slashable_operators reporting the prices equal to a bound as well
identify_slashable_operators_inclusive(vs, slashable_minimum, slashable_maximum) ==
    OperatorsOf(SelectSeq(vs, LAMBDA v : v[2].price <= slashable_minimum
                                         \/ v[2].price >= slashable_maximum))

identify_slashable_operators(vs, slashable_minimum, slashable_maximum) ==
    OperatorsOf(SelectSeq(vs, LAMBDA v : v[2].price < slashable_minimum
                                         \/ v[2].price > slashable_maximum))

\* valid_power: the summed power of the votes inside the allowed range
ValidPower(vs, allowed) == SumVotePower(filter_valid_votes(vs, allowed[1], allowed[2]))

\* the operators outside the slashable range
SlashableOperators(vs, slashable) ==
    identify_slashable_operators(vs, slashable[1], slashable[2])

\* process_votes once the median is known
ProcessWithMedian(vs, total_power, config, median) ==
    [median |-> median,
     slashable_operators |->
         SlashableOperators(vs, calculate_allowed_range(median, config.slashable_spread)),
     is_threshold_met |->
         is_threshold_met(ValidPower(vs, calculate_allowed_range(median, config.allowed_spread)),
                          total_power, config.threshold_percent)]

process_votes(vs, total_power, config) ==
    ProcessWithMedian(vs, total_power, config,
                      calculate_median([i \in 1..Len(vs) |-> vs[i][2].price]))

\* the slashing overwriting the flagged operators with the ones of this task
SlashAll_replace(slashed, operators) == {operators[i] : i \in 1..Len(operators)}

\* noop_slash_validator applied to every listed operator
SlashAll(slashed, operators) == slashed \cup {operators[i] : i \in 1..Len(operators)}

\* OracleDecide completing the task without recording the slashable operators
OracleDecide_no_slash(voted, valid, t, pv) ==
    IF pv.is_threshold_met
    THEN Ret(TRUE, "Completed",
             [voted EXCEPT !.TASKS = Save(valid.tasks, t, CompletedMetadata(valid.meta))],
             <<pv.median>>)
    ELSE Ret(TRUE, "ThresholdNotMet", voted, <<>>)

\* OracleDecide answering an unmet threshold with an error
OracleDecide_error_unmet(voted, valid, t, pv) ==
    IF pv.is_threshold_met
    THEN Ret(TRUE, "Completed",
             [voted EXCEPT !.SLASHED_OPERATORS = SlashAll(@, pv.slashable_operators),
                           !.TASKS = Save(valid.tasks, t, CompletedMetadata(valid.meta))],
             <<pv.median>>)
    ELSE Ret(FALSE, "ThresholdNotMet", voted, <<>>)

\* OracleDecide completing the task whatever the threshold decision
OracleDecide_complete_unmet(voted, valid, t, pv) ==
    Ret(TRUE, "Completed",
        [voted EXCEPT !.SLASHED_OPERATORS = SlashAll(@, pv.slashable_operators),
                      !.TASKS = Save(valid.tasks, t, CompletedMetadata(valid.meta))],
        <<pv.median>>)

\* the response once process_votes has run
OracleDecide(voted, valid, t, pv) ==
    IF pv.is_threshold_met
    THEN Ret(TRUE, "Completed",
             [voted EXCEPT !.SLASHED_OPERATORS = SlashAll(@, pv.slashable_operators),
                           !.TASKS = Save(valid.tasks, t, CompletedMetadata(valid.meta))],
             <<pv.median>>)
    ELSE Ret(TRUE, "ThresholdNotMet", voted, <<>>)

\* OracleGate aggregating whatever the power of the stored votes
OracleGate_no_gate(voted, config, valid, t, vs, total_power) ==
    OracleDecide(voted, valid, t, process_votes(vs, total_power, config))

\* the power gate before the aggregation; Decimal::from_ratio panics on a zero
\* denominator, which aborts the call
OracleGate(voted, config, valid, t, vs, total_power) ==
    IF total_power < valid.meta.power_required
    THEN Ret(TRUE, "VoteStored", voted, <<>>)
    ELSE IF total_power = 0
    THEN Ret(FALSE, "DivideByZero", voted, <<>>)
    ELSE OracleDecide(voted, valid, t, process_votes(vs, total_power, config))

\* all_votes and their total power, read back after the vote is saved
OracleTally(voted, config, valid, t, vs) ==
    OracleGate(voted, config, valid, t, vs, SumVotePower(vs))

\* the vote is saved
OracleSaved(voted, config, valid, t) ==
    OracleTally(voted, config, valid, t, all_votes(voted.VOTES, t))

\* OracleVote answering a zero price with an empty Ok response
OracleVote_zero_price_ok(st, config, op, t, result, valid) ==
    CASE valid.kind = "Err" -> Ret(FALSE, valid.err, [st EXCEPT !.TASKS = valid.tasks], <<>>)
      [] valid.kind = "None" -> Ret(TRUE, "Default", st, <<>>)
      [] ~ParsesAsPriceResult(result) ->
             Ret(FALSE, "ParseError", [st EXCEPT !.TASKS = valid.tasks], <<>>)
      [] PriceOf(result) = Zero ->
             Ret(TRUE, "Default", [st EXCEPT !.TASKS = valid.tasks], <<>>)
      [] OTHER ->
             OracleSaved([st EXCEPT !.TASKS = valid.tasks,
                                    !.VOTES = Save(@, <<t, op>>,
                                                   [price |-> PriceOf(result),
                                                    power |-> valid.power])],
                         config, valid, t)

\* executed_task after ensure_valid_vote
OracleVote(st, config, op, t, result, valid) ==
    CASE valid.kind = "Err" -> Ret(FALSE, valid.err, [st EXCEPT !.TASKS = valid.tasks], <<>>)
      [] valid.kind = "None" -> Ret(TRUE, "Default", st, <<>>)
      [] ~ParsesAsPriceResult(result) ->
             Ret(FALSE, "ParseError", [st EXCEPT !.TASKS = valid.tasks], <<>>)
      [] PriceOf(result) = Zero ->
             Ret(FALSE, "ZeroPrice", [st EXCEPT !.TASKS = valid.tasks], <<>>)
      [] OTHER ->
             OracleSaved([st EXCEPT !.TASKS = valid.tasks,
                                    !.VOTES = Save(@, <<t, op>>,
                                                   [price |-> PriceOf(result),
                                                    power |-> valid.power])],
                         config, valid, t)

oracle_executed_task(st, config, pw, q, op, t, result, h) ==
    OracleVote(st, config, op, t, result,
               ensure_valid_vote(st.TASKS, st.VOTES, config.required_percentage,
                                 pw, q, op, t, h))

-----------------------------------------------------------------------------
(* Construction *)

\* required_percentage values offered to instantiate
ReqPercentages == {0, 70, 101}

\* threshold_percent values offered to the oracle verifier's instantiate
ThresholdPercents == {Zero, Percent(80), Percent(100), Percent(101)}

\* spread values offered to the oracle verifier's instantiate
Spreads == {Percent(10), Percent(20)}

InstantiateMsgs(v) ==
    IF v = "simple"
    THEN {[required_percentage |-> p] : p \in ReqPercentages}
    ELSE [required_percentage : ReqPercentages, threshold_percent : ThresholdPercents,
          allowed_spread : Spreads, slashable_spread : Spreads]

\* SimpleInstantiateCheck without the test for zero
SimpleInstantiateCheck_accept_zero(msg) ==
    IF msg.required_percentage > 100 THEN "InvalidPercentage" ELSE "Ok"

\* verifier-simple instantiate: "Ok" or the error
SimpleInstantiateCheck(msg) ==
    IF msg.required_percentage > 100 \/ msg.required_percentage = 0
    THEN "InvalidPercentage" ELSE "Ok"

\* validate_percentages without the comparison of the two spreads
validate_percentages_any_spreads(msg) ==
    IF \E value \in {msg.threshold_percent, msg.allowed_spread, msg.slashable_spread} :
           value = Zero \/ value > Percent(100)
    THEN "InvalidPercentage"
    ELSE "Ok"

\* validate_percentages without the upper limit of 100 percent
validate_percentages_no_upper_limit(msg) ==
    IF \E value \in {msg.threshold_percent, msg.allowed_spread, msg.slashable_spread} :
           value = Zero
    THEN "InvalidPercentage"
    ELSE IF msg.slashable_spread <= msg.allowed_spread
    THEN "InvalidSpread"
    ELSE "Ok"

\* InstantiateMsg::validate_percentages: "Ok" or the error
validate_percentages(msg) ==
    IF \E value \in {msg.threshold_percent, msg.allowed_spread, msg.slashable_spread} :
           value = Zero \/ value > Percent(100)
    THEN "InvalidPercentage"
    ELSE IF msg.slashable_spread <= msg.allowed_spread
    THEN "InvalidSpread"
    ELSE "Ok"

\* the validation of the deployed contract's instantiate
InstantiateCheck(msg) ==
    IF verifier = "simple" THEN SimpleInstantiateCheck(msg) ELSE validate_percentages(msg)

Instantiate(msg) ==
    /\ CONFIG = <<>>
    /\ CONFIG' = IF InstantiateCheck(msg) = "Ok" THEN msg ELSE CONFIG
    /\ UNCHANGED <<verifier, TASKS, VOTES, OPTIONS, SLASHED_OPERATORS, height, powers,
                   changes, queue, messages>>
    /\ answer' = NoAnswer
    /\ UNCHANGED calc
    /\ UNCHANGED plan

-----------------------------------------------------------------------------
(* Environment: the chain, the task queue and the operators contract *)

\* a new block
NextBlock ==
    /\ height < MaxHeight
    /\ height' = height + 1
    /\ UNCHANGED <<verifier, CONFIG, TASKS, VOTES, OPTIONS, SLASHED_OPERATORS, powers,
                   changes, queue, messages>>
    /\ answer' = NoAnswer
    /\ UNCHANGED calc
    /\ UNCHANGED plan

\* the requestor creates the next task on the task queue, up to `limit` tasks
CreateTask(timeout, limit) ==
    /\ CONFIG # <<>>
    /\ Cardinality(DOMAIN queue) < limit
    /\ queue' = Save(queue, Cardinality(DOMAIN queue) + 1,
                     [status |-> "Open", created_height |-> height,
                      expires_time |-> BlockTime(height) + timeout])
    /\ UNCHANGED <<verifier, CONFIG, TASKS, VOTES, OPTIONS, SLASHED_OPERATORS, height,
                   powers, changes, messages>>
    /\ answer' = NoAnswer
    /\ UNCHANGED calc
    /\ UNCHANGED plan

\* the operators contract changes one operator's power; queries for later heights see it
UpdatePower(op, p) ==
    /\ CONFIG # <<>>
    /\ changes < MaxPowerChanges
    /\ height < MaxHeight
    /\ powers[height + 1][op] # p
    /\ powers' = [h \in 1..MaxHeight |->
                     IF h > height THEN [powers[h] EXCEPT ![op] = p] ELSE powers[h]]
    /\ changes' = changes + 1
    /\ UNCHANGED <<verifier, CONFIG, TASKS, VOTES, OPTIONS, SLASHED_OPERATORS, height,
                   queue, messages>>
    /\ answer' = NoAnswer
    /\ UNCHANGED calc
    /\ UNCHANGED plan

-----------------------------------------------------------------------------------------------------------------------------------------------------
(* The execute entry points as transactions *)

CurrentStore == Store(TASKS, VOTES, OPTIONS, SLASHED_OPERATORS)

\* execute(): dispatch ExecuteMsg::ExecutedTask to the deployed contract
execute(op, t, result) ==
    IF verifier = "simple"
    THEN simple_executed_task(CurrentStore, CONFIG, powers, queue, op, t, result, height)
    ELSE oracle_executed_task(CurrentStore, CONFIG, powers, queue, op, t, result, height)

\* The transaction around execute(): an Err reverts the storage writes; the
\* Complete message of an Ok response runs against the task queue in the same
\* transaction, and its failure reverts everything as well.
Settle(ret, t) ==
    IF ~ret.ok \/ (ret.complete # <<>> /\ ~CompleteAccepted(queue, t, height))
    THEN [ok |-> FALSE, outcome |-> IF ret.ok THEN "CompleteRejected" ELSE ret.outcome,
          store |-> CurrentStore, queue |-> queue, messages |-> messages]
    ELSE IF ret.complete = <<>>
    THEN [ok |-> TRUE, outcome |-> ret.outcome, store |-> ret.store,
          queue |-> queue, messages |-> messages]
    ELSE [ok |-> TRUE, outcome |-> ret.outcome, store |-> ret.store,
          queue |-> [queue EXCEPT ![t].status = "Completed"],
          messages |-> [messages EXCEPT ![t] = @ \o ret.complete]]

\* the outcome of executed_task(op, t, result) sent in the current state
Transaction(op, t, result) == Settle(execute(op, t, result), t)

\* the state a settled transaction leaves
Commit(tx) ==
    /\ TASKS' = tx.store.TASKS
    /\ VOTES' = tx.store.VOTES
    /\ OPTIONS' = tx.store.OPTIONS
    /\ SLASHED_OPERATORS' = tx.store.SLASHED_OPERATORS
    /\ queue' = tx.queue
    /\ messages' = tx.messages

\* an executed_task call on the deployed contract, and the state it leaves
ExecutedTaskCall(op, t, result) ==
    /\ CONFIG # <<>>
    /\ Commit(Transaction(op, t, result))
    /\ UNCHANGED <<verifier, CONFIG, height, powers, changes>>
    /\ answer' = NoAnswer
    /\ UNCHANGED calc

ExecutedTask(op, t, result) ==
    /\ ExecutedTaskCall(op, t, result)
    /\ UNCHANGED plan

-----
(* Specification of the deployed verifier *)

Init ==
    /\ verifier \in {"simple", "oracle"}
    /\ CONFIG = <<>>
    /\ TASKS = EmptyMap
    /\ VOTES = EmptyMap
    /\ OPTIONS = EmptyMap
    /\ SLASHED_OPERATORS = {}
    /\ height = 1
    /\ powers = [h \in 1..MaxHeight |-> InitialPower]
    /\ changes = 0
    /\ queue = EmptyMap
    /\ messages = [t \in TaskIds |-> <<>>]
    /\ answer = NoAnswer
    /\ calc = NoCalc
    /\ plan = NoPlan

InstantiateStep == \E msg \in InstantiateMsgs(verifier) : Instantiate(msg)

ExecutedTaskStep ==
    \E op \in Senders, t \in TaskIds, result \in ResultsOf(verifier) : ExecutedTask(op, t, result)

CreateTaskStep == \E timeout \in Timeouts : CreateTask(timeout, 1)

UpdatePowerStep == \E u \in PowerUpdates : UpdatePower(u[1], u[2])

Next ==
    \/ InstantiateStep
    \/ ExecutedTaskStep
    \/ CreateTaskStep
    \/ NextBlock
    \/ UpdatePowerStep

Spec == Init /\ [][Next]_vars

-----------------------------------------------------------------------------
(* Specification of the first submission over a range of total powers and    *)
(* percentages: verifier-simple is deployed with any accepted percentage,    *)
(* one operator holds all the power, and task 1 is open on the task queue.   *)

InitPowerRequired ==
    /\ verifier = "simple"
    /\ CONFIG \in {[required_percentage |-> p] : p \in 1..100}
    /\ TASKS = EmptyMap
    /\ VOTES = EmptyMap
    /\ OPTIONS = EmptyMap
    /\ SLASHED_OPERATORS = {}
    /\ height = 1
    /\ \E total \in 1..MaxTotalPower :
           powers = [h \in 1..MaxHeight |-> [o \in Senders |-> IF o = "op1" THEN total ELSE 0]]
    /\ changes = 0
    /\ queue = Save(EmptyMap, 1, [status |-> "Open", created_height |-> 1,
                                  expires_time |-> BlockTime(1) + 2])
    /\ messages = [t \in TaskIds |-> <<>>]
    /\ answer = NoAnswer
    /\ calc = NoCalc
    /\ plan = NoPlan

\* the operator's submission that creates the snapshot of task 1
FirstSubmission == ExecutedTask("op1", 1, "a")

NextPowerRequired == FirstSubmission

SpecPowerRequired == InitPowerRequired /\ [][NextPowerRequired]_vars

-----------------------------------------------------------------------------
(* The query entry points.  A query reads the storage through Deps and hands  *)
(* its response to the caller.                                                *)

\* QueryTaskInfo storing the status it reports
QueryTaskInfo_store_expired(t) ==
    /\ verifier = "simple"
    /\ Has(TASKS, t)
    /\ answer' = [query |-> "task_info", response |-> task_info(TASKS, OPTIONS, t, height)]
    /\ UNCHANGED calc
    /\ UNCHANGED plan
    /\ TASKS' = [TASKS EXCEPT ![t].status = task_info(TASKS, OPTIONS, t, height).status]
    /\ UNCHANGED <<verifier, CONFIG, VOTES, OPTIONS, SLASHED_OPERATORS, height, powers,
                   changes, queue, messages>>

\* QueryMsg::TaskInfo of verifier-simple, for a task with a snapshot
QueryTaskInfo(t) ==
    /\ verifier = "simple"
    /\ Has(TASKS, t)
    /\ answer' = [query |-> "task_info", response |-> task_info(TASKS, OPTIONS, t, height)]
    /\ UNCHANGED calc
    /\ UNCHANGED plan
    /\ UNCHANGED <<verifier, CONFIG, TASKS, VOTES, OPTIONS, SLASHED_OPERATORS, height, powers,
                   changes, queue, messages>>

\* QueryMsg::OperatorVote, for an operator with a stored vote
QueryOperatorVote(t, op) ==
    /\ Has(VOTES, <<t, op>>)
    /\ answer' = [query |-> "operator_vote", response |-> operator_vote(VOTES, t, op)]
    /\ UNCHANGED calc
    /\ UNCHANGED plan
    /\ UNCHANGED <<verifier, CONFIG, TASKS, VOTES, OPTIONS, SLASHED_OPERATORS, height, powers,
                   changes, queue, messages>>

\* QueryMsg::Config
QueryConfig ==
    /\ CONFIG # <<>>
    /\ answer' = [query |-> "config", response |-> CONFIG]
    /\ UNCHANGED calc
    /\ UNCHANGED plan
    /\ UNCHANGED <<verifier, CONFIG, TASKS, VOTES, OPTIONS, SLASHED_OPERATORS, height, powers,
                   changes, queue, messages>>

\* SLASHED_OPERATORS.keys(.., Order::Ascending) collected into a Vec<Addr>
slashed_operators(slashed) == SelectSeq(OperatorOrder, LAMBDA o : o \in slashed)

\* QueryMsg::SlashableOperators of the oracle verifier: the keys of SLASHED_OPERATORS
QuerySlashableOperators ==
    /\ verifier = "oracle"
    /\ answer' = [query |-> "slashable_operators",
                  response |-> slashed_operators(SLASHED_OPERATORS)]
    /\ UNCHANGED calc
    /\ UNCHANGED plan
    /\ UNCHANGED <<verifier, CONFIG, TASKS, VOTES, OPTIONS, SLASHED_OPERATORS, height, powers,
                   changes, queue, messages>>

-----------------------------------------------------------------------------
(* Specification of the queries: either verifier is deployed with the        *)
(* configuration of the tests, task 1 is open, and submissions, new blocks   *)
(* and queries interleave.                                                   *)

\* the configuration of the contract's unit tests
TestConfig(v) ==
    IF v = "simple"
    THEN [required_percentage |-> 70]
    ELSE [required_percentage |-> 70, threshold_percent |-> Percent(80),
          allowed_spread |-> Percent(10), slashable_spread |-> Percent(20)]

InitQueries ==
    /\ verifier \in {"simple", "oracle"}
    /\ CONFIG = TestConfig(verifier)
    /\ TASKS = EmptyMap
    /\ VOTES = EmptyMap
    /\ OPTIONS = EmptyMap
    /\ SLASHED_OPERATORS = {}
    /\ height = 1
    /\ powers = [h \in 1..MaxHeight |-> InitialPower]
    /\ changes = 0
    /\ queue = Save(EmptyMap, 1, [status |-> "Open", created_height |-> 1,
                                  expires_time |-> BlockTime(1) + 2])
    /\ messages = [t \in TaskIds |-> <<>>]
    /\ answer = NoAnswer
    /\ calc = NoCalc
    /\ plan = NoPlan

QueryTaskInfoStep == \E t \in TaskIds : QueryTaskInfo(t)

QueryOperatorVoteStep == \E t \in TaskIds, op \in Senders : QueryOperatorVote(t, op)

NextQueries ==
    \/ ExecutedTaskStep
    \/ NextBlock
    \/ QueryTaskInfoStep
    \/ QueryOperatorVoteStep
    \/ QueryConfig
    \/ QuerySlashableOperators

SpecQueries == InitQueries /\ [][NextQueries]_vars

-----------------------------------------------------------------------------
(* Specification of construction: instantiate is called once with a message  *)
(* drawn from a range that covers zero, the limits and values past them.     *)

\* Decimal values offered for threshold_percent and the two spreads
ConstructionDecimals ==
    {Zero, Percent(1), Percent(10), Percent(20), Percent(100), Percent(101)}

ConstructionMsgs(v) ==
    IF v = "simple"
    THEN {[required_percentage |-> p] : p \in 0..101}
    ELSE [required_percentage : {0, 1, 70, 100, 101}, threshold_percent : ConstructionDecimals,
          allowed_spread : ConstructionDecimals, slashable_spread : ConstructionDecimals]

InstantiateAny == \E msg \in ConstructionMsgs(verifier) : Instantiate(msg)

NextConstruction == InstantiateAny

SpecConstruction == Init /\ [][NextConstruction]_vars

-----------------------------------------------------------------------------
(* Specifications of the end-to-end examples: the oracle verifier is deployed *)
(* with spreads 10% / 20% and any accepted required_percentage, the three     *)
(* operators hold 50/30/20, task 1 is open, and each operator submits its     *)
(* price of the example, in any order.                                        *)

\* the operators of the examples
ExampleOperators == {"op1", "op2", "op3"}

\* test_process_votes_one_operator_slashed: 100, 105 and the outlier 150
SlashExamplePrices == [op \in ExampleOperators |->
    CASE op = "op1" -> "100" [] op = "op2" -> "105" [] OTHER -> "150"]

\* happy_path: 100, 102 and 98
HappyPathPrices == [op \in ExampleOperators |->
    CASE op = "op1" -> "100" [] op = "op2" -> "102" [] OTHER -> "98"]

\* the deployment of the examples with threshold_percent drawn from `thresholds`
InitExample(thresholds) ==
    /\ verifier = "oracle"
    /\ CONFIG \in [required_percentage : 1..100, threshold_percent : thresholds,
                   allowed_spread : {Percent(10)}, slashable_spread : {Percent(20)}]
    /\ TASKS = EmptyMap
    /\ VOTES = EmptyMap
    /\ OPTIONS = EmptyMap
    /\ SLASHED_OPERATORS = {}
    /\ height = 1
    /\ powers = [h \in 1..MaxHeight |-> InitialPower]
    /\ changes = 0
    /\ queue = Save(EmptyMap, 1, [status |-> "Open", created_height |-> 1,
                                  expires_time |-> BlockTime(1) + 2])
    /\ messages = [t \in TaskIds |-> <<>>]
    /\ answer = NoAnswer
    /\ calc = NoCalc
    /\ plan = NoPlan

InitSlashExample == InitExample({Percent(80), Percent(100)})

SubmitSlashExample == \E op \in ExampleOperators : ExecutedTask(op, 1, SlashExamplePrices[op])

NextSlashExample == SubmitSlashExample

SpecSlashExample == InitSlashExample /\ [][NextSlashExample]_vars

InitHappyPath == InitExample({Percent(100)})

SubmitHappyPath == \E op \in ExampleOperators : ExecutedTask(op, 1, HappyPathPrices[op])

NextHappyPath == SubmitHappyPath

SpecHappyPath == InitHappyPath /\ [][NextHappyPath]_vars

-----------------------------------------------------------------------------
(* Properties *)

Instantiated == CONFIG # <<>>

\* the stored snapshot of t is Completed
Finalized(t) == Has(TASKS, t) /\ TASKS[t].status = "Completed"

\* the stored snapshot of t is Open and its expiry has passed
ExpiredOpen(t) ==
    Has(TASKS, t) /\ TASKS[t].status = "Open" /\ BlockTime(height) >= TASKS[t].expires_time

\* op has no stored vote for t and has voting power at the height t was created
EligibleNonVoter(t, op) ==
    /\ Has(TASKS, t)
    /\ ~Has(VOTES, <<t, op>>)
    /\ VotingPowerAtHeight(powers, op, TASKS[t].created_height) > 0

\* a result the deployed verifier can parse into a vote
WellFormed(result) ==
    IF verifier = "simple" THEN ParsesAsResponseType(result)
    ELSE ParsesAsPriceResult(result) /\ PriceOf(result) # Zero

\* the summed power of the votes stored for t whose result is r
VotePowerFor(votes, t, r) ==
    SumPowers([op \in Senders |->
                  IF Has(votes, <<t, op>>) /\ votes[<<t, op>>].result = r
                  THEN votes[<<t, op>>].power ELSE 0], Senders)

\* a submission by an operator with a stored vote is rejected as a duplicate
C1_SecondSubmissionRejected ==
    Instantiated =>
        \A t \in TaskIds, op \in Senders, r \in ResultsOf(verifier) :
            (Has(VOTES, <<t, op>>) /\ WellFormed(r)) =>
                LET tx == Transaction(op, t, r)
                IN /\ ~tx.ok
                   /\ tx.outcome = "OperatorAlreadyVoted"
                   /\ tx.store = CurrentStore

\* a step keeps every stored vote as it is
C1_StoredVoteKept ==
    \A k \in DOMAIN VOTES : k \in DOMAIN VOTES' /\ VOTES'[k] = VOTES[k]

(* C1: in both verifiers a second submission of a well-formed result by an
   operator that has a stored vote for the task fails with
   OperatorAlreadyVoted and writes nothing, and a stored vote (result and
   power) never changes or disappears. *)
C1_OneVotePerOperator == []C1_SecondSubmissionRejected /\ [][C1_StoredVoteKept]_vars

\* a vote is stored for a task that is still open for voting
C1_Witness ==
    \E t \in TaskIds, op \in Senders :
        /\ Has(VOTES, <<t, op>>)
        /\ TASKS[t].status = "Open"
        /\ ~is_expired(TASKS[t], height)
        /\ \E o2 \in Senders : o2 # op /\ Has(VOTES, <<t, o2>>)

\* a step keeps a reported Completed and a reported Expired
C2_StatusStep ==
    \A t \in DOMAIN TASKS :
        /\ t \in DOMAIN TASKS'
        /\ task_info(TASKS, OPTIONS, t, height).status = "Completed"
               => task_info(TASKS', OPTIONS', t, height').status = "Completed"
        /\ task_info(TASKS, OPTIONS, t, height).status = "Expired"
               => task_info(TASKS', OPTIONS', t, height').status = "Expired"

(* C2: over submissions and clock advances the status task_info reports
   never leaves Completed and never leaves Expired, so it changes only
   Open->Completed or Open->Expired. *)
C2_StatusNeverGoesBack == [][C2_StatusStep]_vars

\* a Completed task whose expiry time has passed
C2_Witness ==
    \E t \in TaskIds : Finalized(t) /\ BlockTime(height) >= TASKS[t].expires_time

\* t is Completed (stored or on the task queue) or its expiry has passed
ClosedForVotes(t) ==
    \/ Has(TASKS, t) /\ TASKS[t].status = "Completed"
    \/ Has(queue, t) /\ queue[t].status = "Completed"
    \/ Has(TASKS, t) /\ BlockTime(height) >= TASKS[t].expires_time
    \/ Has(queue, t) /\ BlockTime(height) >= queue[t].expires_time

(* C3: a submission to a task that is Completed or whose expiry has passed
   leaves the stored votes and the tallies as they were, whoever the sender
   is and whether or not a snapshot exists. *)
C3_NoVoteOnClosedTask ==
    Instantiated =>
        \A t \in TaskIds, op \in Senders, r \in ResultsOf(verifier) :
            ClosedForVotes(t) =>
                LET tx == Transaction(op, t, r)
                IN tx.store.VOTES = VOTES /\ tx.store.OPTIONS = OPTIONS

\* a Completed task with an operator that has power and has not voted
C3_Witness ==
    \E t \in TaskIds, op \in Senders :
        Finalized(t) /\ EligibleNonVoter(t, op) /\ ClosedForVotes(t)

(* C4: once a task is finalized, every later submission for it, by any sender
   and with any result, returns the no-op outcome and not an error. *)
C4_FinalizedSubmissionIsNoop ==
    Instantiated =>
        \A t \in TaskIds, op \in Senders, r \in ResultsOf(verifier) :
            Finalized(t) =>
                LET tx == Transaction(op, t, r)
                IN tx.ok /\ tx.outcome = "Default"

(* C5: for a task whose snapshot is Open and whose expiry has passed, every
   submission, by any sender and with any result, returns the no-op outcome
   and leaves votes, tallies and snapshot unchanged. *)
C5_ExpiredSubmissionIsNoop ==
    Instantiated =>
        \A t \in TaskIds, op \in Senders, r \in ResultsOf(verifier) :
            ExpiredOpen(t) =>
                LET tx == Transaction(op, t, r)
                IN tx.ok /\ tx.outcome = "Default" /\ tx.store = CurrentStore

(* C6: in verifier-simple an accepted vote finalizes the task, with the
   voter's result in the Complete message, exactly when the summed power of
   the stored votes for that result, the new one included, reaches
   power_required. *)
C6_FinalizesIffResultPowerReached ==
    (Instantiated /\ verifier = "simple") =>
        \A t \in TaskIds, op \in Senders, r \in SimpleResults :
            LET tx == Transaction(op, t, r)
            IN (tx.ok /\ tx.outcome # "Default") =>
                  LET enough == VotePowerFor(tx.store.VOTES, t, r)
                                    >= tx.store.TASKS[t].power_required
                  IN IF enough
                     THEN /\ tx.outcome = "Completed"
                          /\ tx.store.TASKS[t].status = "Completed"
                          /\ tx.messages[t] = Append(messages[t], r)
                     ELSE /\ tx.outcome = "NotCompleted"
                          /\ tx.store.TASKS[t].status = "Open"
                          /\ tx.messages = messages

\* a task finalized with result r while another operator's vote is for another result
C6_Witness ==
    /\ verifier = "simple"
    /\ \E t \in TaskIds, o1 \in Senders, o2 \in Senders :
          /\ Finalized(t)
          /\ Has(VOTES, <<t, o1>>) /\ Has(VOTES, <<t, o2>>)
          /\ VOTES[<<t, o1>>].result # VOTES[<<t, o2>>].result
          /\ messages[t] = <<VOTES[<<t, o1>>].result>>
          /\ VotePowerFor(VOTES, t, VOTES[<<t, o1>>].result) >= TASKS[t].power_required

(* C7: in verifier-simple, after a task is Completed, a well-formed
   submission with another result from an operator that has not voted
   succeeds and changes neither the storage nor the task queue, and sends no
   Complete message. *)
C7_LateDissentChangesNothing ==
    (Instantiated /\ verifier = "simple") =>
        \A t \in TaskIds, op \in Senders, r \in SimpleResults :
            (/\ Finalized(t)
             /\ ~Has(VOTES, <<t, op>>)
             /\ WellFormed(r)
             /\ messages[t] # <<>>
             /\ r # messages[t][1]) =>
                LET tx == Transaction(op, t, r)
                IN /\ tx.ok
                   /\ tx.store = CurrentStore
                   /\ tx.queue = queue
                   /\ tx.messages = messages

\* verifier-simple finalized a task with "a" and an operator with power has yet to vote
C7_Witness ==
    /\ verifier = "simple"
    /\ \E t \in TaskIds, op \in Senders :
          Finalized(t) /\ EligibleNonVoter(t, op) /\ messages[t] = <<"a">>

(* C8: the power_required of a created snapshot is the ceiling of the total
   power at the task's created height times required_percentage / 100. *)
C8_PowerRequiredIsCeiling ==
    \A t \in DOMAIN TASKS :
        LET total == TotalPowerAtHeight(powers, TASKS[t].created_height)
            pr == TASKS[t].power_required
        IN /\ pr * 100 >= total * CONFIG.required_percentage
           /\ (pr - 1) * 100 < total * CONFIG.required_percentage

\* total power 601 at 50 percent gives 301
C8_Witness ==
    /\ Has(TASKS, 1)
    /\ CONFIG.required_percentage = 50
    /\ TotalPowerAtHeight(powers, TASKS[1].created_height) = 601
    /\ TASKS[1].power_required = 301

\* a step keeps the three fields of every stored snapshot
C9_SnapshotStep ==
    \A t \in DOMAIN TASKS :
        /\ t \in DOMAIN TASKS'
        /\ TASKS'[t].power_required = TASKS[t].power_required
        /\ TASKS'[t].created_height = TASKS[t].created_height
        /\ TASKS'[t].expires_time = TASKS[t].expires_time

(* C9: power_required, created_height and expires_time of a stored snapshot
   never change, also when finalization rewrites the snapshot or the
   operators' powers change, and a stored snapshot is never removed. *)
C9_SnapshotFieldsFrozen == [][C9_SnapshotStep]_vars

\* a finalized task whose power_required differs from what the current powers would give
C9_Witness ==
    \E t \in TaskIds :
        /\ Finalized(t)
        /\ TASKS[t].power_required #
               PowerRequired(TotalPowerAtHeight(powers, height), CONFIG.required_percentage)

(* C10: the power stored with a vote is the operator's voting power at the
   task's created_height. *)
C10_VotePowerIsSnapshotPower ==
    \A k \in DOMAIN VOTES :
        /\ Has(TASKS, k[1])
        /\ VOTES[k].power = VotingPowerAtHeight(powers, k[2], TASKS[k[1]].created_height)

\* a stored vote whose power differs from the operator's power at the current height
C10_Witness ==
    \E k \in DOMAIN VOTES :
        /\ height > TASKS[k[1]].created_height
        /\ VOTES[k].power # VotingPowerAtHeight(powers, k[2], height)

\* t is Open and unexpired on the task queue and in the snapshot, if one is stored
OpenForVotes(t) ==
    /\ Has(queue, t)
    /\ TaskStatusQuery(queue, t, height).status = "Open"
    /\ Has(TASKS, t) => (TASKS[t].status = "Open" /\ ~is_expired(TASKS[t], height))

(* C11: a submission to an Open, unexpired task by a sender whose voting
   power at the task's created_height is zero fails and leaves the storage,
   the task queue and the messages as they were; the error is Unauthorized
   whenever the result reaches the power check (in verifier-simple a result
   that is not JSON fails at the parse before it). *)
C11_ZeroPowerUnauthorized ==
    Instantiated =>
        \A t \in TaskIds, op \in Senders, r \in ResultsOf(verifier) :
            (/\ OpenForVotes(t)
             /\ VotingPowerAtHeight(powers, op, queue[t].created_height) = 0) =>
                LET tx == Transaction(op, t, r)
                IN /\ ~tx.ok
                   /\ tx.store = CurrentStore
                   /\ tx.queue = queue
                   /\ tx.messages = messages
                   /\ (verifier = "simple" => ParsesAsResponseType(r))
                          => tx.outcome = "Unauthorized"

\* an open task with stored votes and a sender that had no power when the task
\* was created but has power now
C11_Witness ==
    \E t \in TaskIds, op \in Senders :
        /\ OpenForVotes(t)
        /\ Has(TASKS, t)
        /\ \E o2 \in Senders : Has(VOTES, <<t, o2>>)
        /\ VotingPowerAtHeight(powers, op, queue[t].created_height) = 0
        /\ VotingPowerAtHeight(powers, op, height) > 0

\* the call stored a vote of op for t
StoredVote(tx, t, op) == tx.ok /\ ~Has(VOTES, <<t, op>>) /\ Has(tx.store.VOTES, <<t, op>>)

\* the votes stored for t reach the power gate, so the aggregation runs over them
AggregationRuns(store, t) ==
    SumVotePower(all_votes(store.VOTES, t)) >= store.TASKS[t].power_required

\* the aggregation of the votes stored for t under the stored configuration
Aggregate(store, t) ==
    process_votes(all_votes(store.VOTES, t), SumVotePower(all_votes(store.VOTES, t)), CONFIG)

\* the operators whose stored price for t lies outside the band of `spread` around median
OutsideBand(votes, t, median, spread) ==
    {op \in Senders :
        /\ Has(votes, <<t, op>>)
        /\ \/ votes[<<t, op>>].price < DecMul(median, One - spread)
           \/ votes[<<t, op>>].price > DecMul(median, One + spread)}

(* C12: in the oracle verifier, when a call stores a vote, the aggregation
   runs and the threshold is met, that same call adds every operator outside
   the slashable band to SLASHED_OPERATORS (and no other), stores the status
   Completed, and delivers exactly one Complete message, carrying the median,
   to the task queue. *)
C12_ThresholdMetFinalizes ==
    (Instantiated /\ verifier = "oracle") =>
        \A t \in TaskIds, op \in Senders, r \in OracleResults :
            LET tx == Transaction(op, t, r)
            IN (/\ StoredVote(tx, t, op)
                /\ AggregationRuns(tx.store, t)
                /\ Aggregate(tx.store, t).is_threshold_met) =>
                   /\ tx.store.SLASHED_OPERATORS =
                          SLASHED_OPERATORS \cup
                              OutsideBand(tx.store.VOTES, t, Aggregate(tx.store, t).median,
                                          CONFIG.slashable_spread)
                   /\ tx.store.TASKS[t].status = "Completed"
                   /\ messages[t] = <<>>
                   /\ tx.messages = [messages EXCEPT ![t] = <<Aggregate(tx.store, t).median>>]
                   /\ tx.queue[t].status = "Completed"

\* the oracle verifier finalized a task at 105 and flagged the operator that voted 150
C12_Witness ==
    /\ verifier = "oracle"
    /\ \E t \in TaskIds, op \in Senders :
          /\ Finalized(t)
          /\ messages[t] = <<PriceOf("105")>>
          /\ Has(VOTES, <<t, op>>)
          /\ VOTES[<<t, op>>].price = PriceOf("150")
          /\ SLASHED_OPERATORS = {op}

\* VOTES with the vote op casts for t with result r
WithVote(votes, t, op, r) ==
    Save(votes, <<t, op>>,
         [price |-> PriceOf(r),
          power |-> VotingPowerAtHeight(powers, op, queue[t].created_height)])

\* the valid-weight ratio of the votes stored for t reaches threshold_percent
RatioReached(votes, t) ==
    process_votes(all_votes(votes, t), SumVotePower(all_votes(votes, t)), CONFIG).is_threshold_met

\* a valid vote whose aggregation is below threshold_percent is stored and finalizes nothing
C13_UnmetVoteIsStored ==
    (Instantiated /\ verifier = "oracle") =>
        \A t \in TaskIds, op \in Senders, r \in OracleResults :
            (/\ OpenForVotes(t)
             /\ ~Has(VOTES, <<t, op>>)
             /\ VotingPowerAtHeight(powers, op, queue[t].created_height) > 0
             /\ WellFormed(r)
             /\ ~RatioReached(WithVote(VOTES, t, op, r), t)) =>
                LET tx == Transaction(op, t, r)
                IN /\ tx.ok
                   /\ tx.store.VOTES = WithVote(VOTES, t, op, r)
                   /\ tx.store.OPTIONS = OPTIONS
                   /\ tx.store.TASKS[t].status = "Open"
                   /\ tx.store.SLASHED_OPERATORS = SLASHED_OPERATORS
                   /\ tx.queue = queue
                   /\ tx.messages = messages

\* the step that finalizes a task delivers the median of all the votes stored for it
C13_FinalizingStep ==
    verifier = "oracle" =>
        \A t \in DOMAIN TASKS :
            (TASKS[t].status = "Open" /\ TASKS'[t].status = "Completed") =>
                /\ \A k \in DOMAIN VOTES : k \in DOMAIN VOTES' /\ VOTES'[k] = VOTES[k]
                /\ messages'[t] =
                       <<calculate_median([i \in 1..Len(all_votes(VOTES', t)) |->
                                              all_votes(VOTES', t)[i][2].price])>>

(* C13: in the oracle verifier a valid vote that leaves the valid-weight
   ratio below threshold_percent succeeds, is stored, leaves the task Open,
   sends no Complete message and flags no operator; the call that later
   finalizes the task aggregates all stored votes, the earlier ones
   included. *)
C13_UnmetThresholdKeepsTaskOpen == []C13_UnmetVoteIsStored /\ [][C13_FinalizingStep]_vars

\* a finalized task where all votes but one had passed the power gate below the threshold
C13_Witness ==
    /\ verifier = "oracle"
    /\ \E t \in TaskIds, op \in Senders :
          /\ Finalized(t)
          /\ Has(VOTES, <<t, op>>)
          /\ LET before == [k \in DOMAIN VOTES \ {<<t, op>>} |-> VOTES[k]]
             IN /\ all_votes(before, t) # <<>>
                /\ SumVotePower(all_votes(before, t)) >= TASKS[t].power_required
                /\ ~RatioReached(before, t)

\* the three operators of the examples have a stored vote for task 1
ExampleVoted == \A op \in ExampleOperators : Has(VOTES, <<1, op>>)

\* the outcome of the 100/105/150 example: never finalized at threshold 100%; at
\* threshold 80% finalized once the three votes are in, at 105 with op3 flagged
SlashExampleOutcome ==
    /\ CONFIG.threshold_percent = Percent(100) => (~Finalized(1) /\ messages[1] = <<>>)
    /\ CONFIG.threshold_percent = Percent(80) =>
           /\ ExampleVoted => Finalized(1)
           /\ Finalized(1) => /\ messages[1] = <<PriceOf("105")>>
                              /\ SLASHED_OPERATORS = {"op3"}

\* C14 as claimed: the outcome of the example for every required_percentage in
\* 1..100 and every order of the three submissions
C14_SlashExampleAnyPercentage == SlashExampleOutcome

(* C14: with powers 50/30/20, allowed_spread 0.10, slashable_spread 0.20 and
   the prices 100, 105 and 150 submitted in any order, for every
   required_percentage above 80 the task is not finalized at threshold_percent
   1.00, and at threshold_percent 0.80 it is finalized by the third vote with
   result 105 and the operator that submitted 150 flagged. *)
C14_SlashExampleAllVotesRequired ==
    CONFIG.required_percentage > 80 =>
        /\ SlashExampleOutcome
        /\ ~ExampleVoted => ~Finalized(1)

\* required_percentage 81, threshold 0.80: finalized at 105 with op3 flagged
C14_Witness ==
    /\ CONFIG.required_percentage = 81
    /\ CONFIG.threshold_percent = Percent(80)
    /\ ExampleVoted
    /\ Finalized(1)
    /\ messages[1] = <<PriceOf("105")>>
    /\ SLASHED_OPERATORS = {"op3"}

(* C15: with threshold_percent 100%, powers 50/30/20, spreads 10% / 20% and
   the prices 100, 102 and 98, the task is not finalized before the three
   operators have voted, and it ends Completed with the median 100 of the
   three prices and no operator flagged. *)
C15_HappyPathNeedsAllOperators ==
    /\ Finalized(1) => ExampleVoted
    /\ ExampleVoted => Finalized(1)
    /\ Finalized(1) => (messages[1] = <<PriceOf("100")>> /\ SLASHED_OPERATORS = {})

\* a Decimal in (0, 1]
InUnitRange(d) == d > Zero /\ d <= One

\* the three Decimal fields are in (0, 1] and slashable_spread exceeds allowed_spread
ValidSpreadConfig(msg) ==
    /\ InUnitRange(msg.threshold_percent)
    /\ InUnitRange(msg.allowed_spread)
    /\ InUnitRange(msg.slashable_spread)
    /\ msg.slashable_spread > msg.allowed_spread

(* C16: the oracle verifier's instantiate accepts a message exactly when
   threshold_percent, allowed_spread and slashable_spread are each in (0, 1]
   and slashable_spread > allowed_spread; it then stores the message as the
   configuration, and a rejected message stores nothing, so every stored
   configuration satisfies the condition. *)
C16_SpreadConfigValidated ==
    verifier = "oracle" =>
        /\ \A msg \in ConstructionMsgs("oracle") :
               /\ (InstantiateCheck(msg) = "Ok") <=> ValidSpreadConfig(msg)
               /\ CONFIG = <<>> =>
                      ENABLED (Instantiate(msg) /\
                               CONFIG' = IF ValidSpreadConfig(msg) THEN msg ELSE <<>>)
        /\ CONFIG # <<>> => ValidSpreadConfig(CONFIG)

\* a stored configuration of the oracle verifier at the limits: threshold 1, spreads 0.2 < 1
C16_Witness ==
    /\ verifier = "oracle"
    /\ CONFIG # <<>>
    /\ CONFIG.threshold_percent = One
    /\ CONFIG.allowed_spread = Percent(20)
    /\ CONFIG.slashable_spread = One

(* C17: verifier-simple's instantiate fails with InvalidPercentage when
   required_percentage is 0 or above 100 and stores nothing, and it accepts
   and stores every value in 1..100. *)
C17_SimplePercentageValidated ==
    verifier = "simple" =>
        /\ \A msg \in ConstructionMsgs("simple") :
               /\ InstantiateCheck(msg) =
                      (IF msg.required_percentage \in 1..100 THEN "Ok" ELSE "InvalidPercentage")
               /\ CONFIG = <<>> =>
                      ENABLED (Instantiate(msg) /\
                               CONFIG' = IF msg.required_percentage \in 1..100
                                         THEN msg ELSE <<>>)
        /\ CONFIG # <<>> => CONFIG.required_percentage \in 1..100

\* verifier-simple deployed with the largest accepted percentage
C17_Witness ==
    verifier = "simple" /\ CONFIG # <<>> /\ CONFIG.required_percentage = 100

(* C18: every stored configuration of the oracle verifier has
   required_percentage in 1..100. *)
C18_OraclePercentageValidated ==
    (verifier = "oracle" /\ CONFIG # <<>>) => CONFIG.required_percentage \in 1..100

\* the call leaves the storage, the task queue and the delivered messages as they are
WritesNothing(tx) == tx.store = CurrentStore /\ tx.queue = queue /\ tx.messages = messages

\* the inputs the verifier rejects: a second vote, a sender without power on an
\* open task, a result that does not parse or carries a zero price (the oracle
\* verifier reads the result only once the task is found open)
Rejectable(t, op, r) ==
    \/ Has(VOTES, <<t, op>>)
    \/ OpenForVotes(t) /\ VotingPowerAtHeight(powers, op, queue[t].created_height) = 0
    \/ ~WellFormed(r) /\ (verifier = "simple" \/ OpenForVotes(t))

(* C19: every executed_task call that is a duplicate vote, comes from a
   sender without voting power, or carries a result that does not parse or a
   zero price returns an error, and every call that returns an error leaves
   votes, tallies, slash flags and task snapshots exactly as they were, also
   when it is the first submission seen for the task. *)
C19_RejectionWritesNothing ==
    Instantiated =>
        \A t \in TaskIds, op \in Senders, r \in ResultsOf(verifier) :
            LET tx == Transaction(op, t, r)
            IN /\ Rejectable(t, op, r) => ~tx.ok
               /\ ~tx.ok => WritesNothing(tx)

\* an open task without a snapshot yet, a sender without power and an operator with power
C19_Witness ==
    \E t \in TaskIds, op \in Senders, o2 \in Senders :
        /\ OpenForVotes(t)
        /\ ~Has(TASKS, t)
        /\ VotingPowerAtHeight(powers, op, queue[t].created_height) = 0
        /\ VotingPowerAtHeight(powers, o2, queue[t].created_height) > 0

\* the stored status is Open or Completed, and task_info reports Expired exactly
\* for a stored Open whose expiry has passed
C20_ExpiryDerived ==
    \A t \in DOMAIN TASKS :
        /\ TASKS[t].status \in {"Open", "Completed"}
        /\ (task_info(TASKS, OPTIONS, t, height).status = "Expired")
               <=> (TASKS[t].status = "Open" /\ BlockTime(height) >= TASKS[t].expires_time)

\* a query step changes nothing but the response handed to the caller, and a
\* task_info response carries the derived status
C20_QueryStep ==
    answer' # NoAnswer =>
        /\ UNCHANGED <<verifier, CONFIG, TASKS, VOTES, OPTIONS, SLASHED_OPERATORS, height,
                       powers, changes, queue, messages>>
        /\ answer'.query = "task_info" =>
               \E t \in DOMAIN TASKS :
                   answer'.response.status =
                       (IF TASKS[t].status = "Open" /\ BlockTime(height) >= TASKS[t].expires_time
                        THEN "Expired" ELSE TASKS[t].status)

(* C20: expiry is derived and never stored: task_info reports Expired exactly
   when the stored status is Open and the block time has reached
   expires_time, no snapshot ever holds the status Expired, and the queries
   task_info, operator_vote, config and slashable_operators change no
   persisted state. *)
C20_ExpiryIsDerivedNotStored == []C20_ExpiryDerived /\ [][C20_QueryStep]_vars

\* task_info answered Expired for a task whose stored status is Open
C20_Witness ==
    /\ answer # NoAnswer
    /\ answer.query = "task_info"
    /\ answer.response.status = "Expired"
    /\ \E t \in DOMAIN TASKS : TASKS[t].status = "Open" /\ VOTES # EmptyMap


-----------------------------------------------------------------------------
(* Direct calls of the aggregation functions, as in the unit tests of the    *)
(* oracle verifier: the arguments are chosen at the start and the call       *)
(* returns its result.  The contract itself is not touched.                  *)

\* the state around a direct call: the oracle verifier, not instantiated
DirectCall(calls) ==
    /\ verifier = "oracle"
    /\ CONFIG = <<>>
    /\ TASKS = EmptyMap
    /\ VOTES = EmptyMap
    /\ OPTIONS = EmptyMap
    /\ SLASHED_OPERATORS = {}
    /\ height = 1
    /\ powers = [h \in 1..MaxHeight |-> InitialPower]
    /\ changes = 0
    /\ queue = EmptyMap
    /\ messages = [t \in TaskIds |-> <<>>]
    /\ answer = NoAnswer
    /\ calc \in calls
    /\ plan = NoPlan

\* a call that has not returned yet
Call(fn, args) == [fn |-> fn, args |-> args, returned |-> FALSE, result |-> <<>>]

Return(result) ==
    /\ calc' = [calc EXCEPT !.returned = TRUE, !.result = result]
    /\ UNCHANGED <<verifier, CONFIG, TASKS, VOTES, OPTIONS, SLASHED_OPERATORS, height, powers,
                   changes, queue, messages, answer, plan>>

Returned(fn) == calc # NoCalc /\ calc.fn = fn /\ calc.returned

\* all sequences over S of length at most n
SeqsUpTo(S, n) == UNION {[1..k -> S] : k \in 0..n}

\* prices of the unit tests of calculate_median (1, 3, 5, 7 and 1.1 .. 1.4) and
\* the two smallest positive Decimals
MedianValues == {1, 2, One, Percent(300), Percent(500), Percent(700),
                 Percent(110), Percent(120), Percent(130), Percent(140)}

InitMedian ==
    DirectCall({Call("calculate_median", values) : values \in SeqsUpTo(MedianValues, MaxPrices)})

CallCalculateMedian ==
    /\ calc.fn = "calculate_median"
    /\ ~calc.returned
    /\ Return(calculate_median(calc.args))

NextMedian == CallCalculateMedian

SpecMedian == InitMedian /\ [][NextMedian]_vars

-----------------------------------------------------------------------------
(* C24, C25: calculate_median *)

\* m is the middle element of the ascending sort of an odd-length list: it is in
\* the list and at most half of the positions hold a smaller, or a larger, value
IsMiddleElement(values, m) ==
    /\ \E i \in 1..Len(values) : values[i] = m
    /\ Cardinality({i \in 1..Len(values) : values[i] < m}) <= Len(values) \div 2
    /\ Cardinality({i \in 1..Len(values) : values[i] > m}) <= Len(values) \div 2

\* C24: calculate_median returns, for every odd-length input in any order, the
\* middle element of the ascending sort, and Decimal zero for the empty input.
C24_MedianOfOddAndEmptyInput ==
    Returned("calculate_median") =>
        /\ Len(calc.args) = 0 => calc.result = Zero
        /\ Len(calc.args) % 2 = 1 => IsMiddleElement(calc.args, calc.result)

\* the unit test calculate_median_unsorted: 5, 1, 3 gives 3
C24_Witness ==
    /\ Returned("calculate_median")
    /\ calc.args = <<Percent(500), One, Percent(300)>>
    /\ calc.result = Percent(300)

\* the two central elements of the ascending sort of a non-empty even-length list
CentralSum(values) ==
    LET sorted == SortSeq(values, LAMBDA x, y : x < y)
    IN  sorted[Len(values) \div 2] + sorted[(Len(values) \div 2) + 1]

\* C25: calculate_median returns, for every even-length input, the mean of the
\* two central elements of the ascending sort, a mean that is not a Decimal
\* being rounded half-up to the next Decimal.
C25_MedianOfEvenInputRoundsHalfUp ==
    (Returned("calculate_median") /\ Len(calc.args) > 0 /\ Len(calc.args) % 2 = 0) =>
        calc.result = (CentralSum(calc.args) + 1) \div 2


-----------------------------------------------------------------------------
(* Direct calls of is_threshold_met *)

\* the powers of the calls: every small power, and the 50 and 100 of the unit tests
RatioPowers == (0..MaxRatioPower) \cup {50, 100}

\* every Decimal in (0, 1]
RatioThresholds == 1..One

\* the callers pass the power of a part of the votes and the power of all of them
InitThreshold ==
    DirectCall(UNION {{Call("is_threshold_met",
                            [valid_power |-> v, total_power |-> t, threshold_percent |-> th]) :
                           v \in {p \in RatioPowers : p <= t}, th \in RatioThresholds} :
                      t \in RatioPowers \ {0}})

CallIsThresholdMet ==
    /\ calc.fn = "is_threshold_met"
    /\ ~calc.returned
    /\ Return(is_threshold_met(calc.args.valid_power, calc.args.total_power,
                               calc.args.threshold_percent))

NextThreshold == CallIsThresholdMet

SpecThreshold == InitThreshold /\ [][NextThreshold]_vars

-----------------------------------------------------------------------------
(* C27: is_threshold_met *)

\* C27: for every total_power > 0, valid_power <= total_power and Decimal
\* threshold_percent in (0, 1], is_threshold_met answers exactly whether the
\* rational valid_power / total_power is at least threshold_percent; the
\* comparison is stated on integers by cross-multiplication.
C27_ThresholdComparisonIsExact ==
    Returned("is_threshold_met") =>
        (calc.result <=>
            calc.args.valid_power * DECIMAL_FRACTIONAL
                >= calc.args.threshold_percent * calc.args.total_power)

\* the unit test at equality: 50 of 100 against 50% is met
C27_Witness ==
    /\ Returned("is_threshold_met")
    /\ calc.args = [valid_power |-> 50, total_power |-> 100, threshold_percent |-> Percent(50)]
    /\ calc.result = TRUE


-----------------------------------------------------------------------------
(* C23: the power gate of the oracle verifier *)

\* the summed power of the votes stored for t in a store
StoredPower(store, t) == SumVotePower(all_votes(store.VOTES, t))

(* C23: in the oracle verifier a call that stores a vote while the summed power
   of the votes stored for the task, the new one included, is below
   power_required answers vote_stored, leaves the task Open, sends no Complete
   message and flags nobody; the outcomes of the aggregation (Completed,
   threshold_not_met) occur only in a call that stored a vote and brought that
   sum to power_required or above, and every such call has one of them. *)
C23_AggregationOnlyAtPowerRequired ==
    (Instantiated /\ verifier = "oracle") =>
        \A t \in TaskIds, op \in Senders, r \in OracleResults :
            LET tx == Transaction(op, t, r)
            IN /\ (StoredVote(tx, t, op)
                     /\ StoredPower(tx.store, t) < tx.store.TASKS[t].power_required) =>
                       /\ tx.outcome = "VoteStored"
                       /\ tx.store.TASKS[t].status = "Open"
                       /\ tx.store.SLASHED_OPERATORS = SLASHED_OPERATORS
                       /\ tx.messages = messages
                       /\ tx.queue = queue
               /\ tx.outcome \in {"Completed", "ThresholdNotMet"} <=>
                       /\ StoredVote(tx, t, op)
                       /\ StoredPower(tx.store, t) >= tx.store.TASKS[t].power_required

\* a vote of 150 is stored alone, below power_required: the task is Open, nothing was
\* sent and nobody is flagged, although the lone vote is 100% of the votes cast
C23_Witness ==
    /\ verifier = "oracle"
    /\ \E t \in TaskIds, op \in Senders :
          /\ Has(TASKS, t)
          /\ TASKS[t].status = "Open"
          /\ all_votes(VOTES, t) = << <<op, [price |-> PriceOf("150"), power |-> InitialPower[op]]>> >>
          /\ InitialPower[op] < TASKS[t].power_required
          /\ CONFIG.threshold_percent <= One
          /\ messages[t] = <<>>
          /\ SLASHED_OPERATORS = {}


-----------------------------------------------------------------------------
(* C30: at most one Complete message per task *)

\* once a Complete message was delivered for t, no call for t returns another one,
\* and no call returns a Complete message that the task queue refuses
C30_NoSecondComplete ==
    Instantiated =>
        \A t \in TaskIds, op \in Senders, r \in ResultsOf(verifier) :
            /\ messages[t] # <<>> => execute(op, t, r).complete = <<>>
            /\ Transaction(op, t, r).outcome # "CompleteRejected"
            /\ Len(messages[t]) <= 1

\* a delivered Complete message and the finalized snapshot never change
C30_FinalizedStep ==
    \A t \in TaskIds :
        messages[t] # <<>> =>
            /\ messages'[t] = messages[t]
            /\ Has(TASKS, t) /\ Has(TASKS', t)
            /\ TASKS'[t] = TASKS[t]
            /\ TASKS[t].status = "Completed"

(* C30: in both verifiers at most one Complete message is ever emitted for a
   task: after the call that finalized it no later call emits another one, and
   the delivered result and the finalized snapshot never change. *)
C30_AtMostOneComplete == []C30_NoSecondComplete /\ [][C30_FinalizedStep]_vars

\* a finalized task with its one Complete message, while an operator with voting
\* power has not voted yet and a new block has begun
C30_Witness ==
    \E t \in TaskIds, op \in Senders :
        /\ Finalized(t)
        /\ Len(messages[t]) = 1
        /\ EligibleNonVoter(t, op)
        /\ height > queue[t].created_height


-----------------------------------------------------------------------------
(* Specification of two tasks: either verifier is deployed with the          *)
(* configuration of the tests, tasks 1 and 2 are open for the whole run, and *)
(* the operators submit to both in any order, between queries of the flagged *)
(* operators and of the tasks.                                               *)

OpenTask == [status |-> "Open", created_height |-> 1, expires_time |-> BlockTime(MaxHeight) + 1]

InitTwoTasks ==
    /\ verifier \in {"simple", "oracle"}
    /\ CONFIG = TestConfig(verifier)
    /\ TASKS = EmptyMap
    /\ VOTES = EmptyMap
    /\ OPTIONS = EmptyMap
    /\ SLASHED_OPERATORS = {}
    /\ height = 1
    /\ powers = [h \in 1..MaxHeight |-> InitialPower]
    /\ changes = 0
    /\ queue = Save(Save(EmptyMap, 1, OpenTask), 2, OpenTask)
    /\ messages = [t \in TaskIds |-> <<>>]
    /\ answer = NoAnswer
    /\ calc = NoCalc
    /\ plan = NoPlan

NextTwoTasks == ExecutedTaskStep \/ QuerySlashableOperators \/ QueryTaskInfoStep

SpecTwoTasks == InitTwoTasks /\ [][NextTwoTasks]_vars

-----------------------------------------------------------------------------
(* C22: SLASHED_OPERATORS only grows *)

\* the step finalizes t
Finalizes(t) ==
    /\ ~Finalized(t)
    /\ Has(TASKS', t)
    /\ TASKS'[t].status = "Completed"

\* no step removes a flagged operator, and a finalization whose outliers are all
\* flagged already leaves SLASHED_OPERATORS as it is
C22_FlagStep ==
    /\ SLASHED_OPERATORS \subseteq SLASHED_OPERATORS'
    /\ verifier = "oracle" =>
           \A t \in TaskIds :
               (/\ Finalizes(t)
                /\ OutsideBand(VOTES', t, messages'[t][1], CONFIG.slashable_spread)
                       \subseteq SLASHED_OPERATORS) =>
                   SLASHED_OPERATORS' = SLASHED_OPERATORS

\* the slashable_operators query lists every flagged operator, and each one once
C22_QueryListsEachOnce ==
    (answer # NoAnswer /\ answer.query = "slashable_operators") =>
        /\ {answer.response[i] : i \in 1..Len(answer.response)} = SLASHED_OPERATORS
        /\ Len(answer.response) = Cardinality(SLASHED_OPERATORS)

(* C22: SLASHED_OPERATORS is append-only: every step keeps the operators that
   are flagged, a finalization that flags only operators flagged before leaves
   the set unchanged, and the slashable_operators query lists each flagged
   operator exactly once. *)
C22_FlaggedSetIsAppendOnly == []C22_QueryListsEachOnce /\ [][C22_FlagStep]_vars

\* both tasks were finalized with the vote 150 of op3 outside the slashable band:
\* op3 was flagged twice and the query lists it once
C22_Witness ==
    /\ verifier = "oracle"
    /\ Finalized(1) /\ Finalized(2)
    /\ \A t \in TaskIds : Has(VOTES, <<t, "op3">>) /\ VOTES[<<t, "op3">>].price = PriceOf("150")
    /\ SLASHED_OPERATORS = {"op3"}
    /\ answer = [query |-> "slashable_operators", response |-> <<"op3">>]


-----------------------------------------------------------------------------
(* Specification of the allowed band: the deployment of the examples, with   *)
(* every required_percentage and threshold_percent 80% or 100%, where the    *)
(* operators submit prices at, inside and just outside the ends of the 10%   *)
(* band around 100.                                                          *)

BandEdgeResults == {"89.99", "90", "100", "110", "110.01"}

InitBandEdges == InitExample({Percent(80), Percent(100)})

SubmitBandEdges ==
    \E op \in ExampleOperators, r \in BandEdgeResults : ExecutedTask(op, 1, r)

NextBandEdges == SubmitBandEdges

SpecBandEdges == InitBandEdges /\ [][NextBandEdges]_vars

-----------------------------------------------------------------------------
(* C26: valid votes and the threshold of the oracle verifier *)

\* the median of the prices stored for t
StoredMedian(votes, t) ==
    calculate_median([i \in 1..Len(all_votes(votes, t)) |-> all_votes(votes, t)[i][2].price])

\* the votes stored for t whose price lies in the closed band of `spread` around
\* median, the ends of the band being the Decimal products median * (1 -/+ spread)
VotesInBand(votes, t, median, spread) ==
    [k \in {x \in DOMAIN votes :
                /\ x[1] = t
                /\ DecMul(median, One - spread) <= votes[x].price
                /\ votes[x].price <= DecMul(median, One + spread)} |-> votes[k]]

(* C26: in the oracle verifier, when a call stores a vote and the aggregation
   runs, the task is finalized exactly when the summed power of the stored
   votes with median*(1-allowed_spread) <= price <= median*(1+allowed_spread),
   both ends included, divided by the summed power of all the votes stored for
   the task, is at least threshold_percent; the division is stated exactly, by
   cross-multiplication. *)
C26_ValidPowerOverVotesCast ==
    \A op \in ExampleOperators, r \in BandEdgeResults :
        LET tx == Transaction(op, 1, r)
        IN (StoredVote(tx, 1, op) /\ AggregationRuns(tx.store, 1)) =>
               (tx.outcome = "Completed" <=>
                    SumVotePower(all_votes(VotesInBand(tx.store.VOTES, 1,
                                                       StoredMedian(tx.store.VOTES, 1),
                                                       CONFIG.allowed_spread), 1))
                            * DECIMAL_FRACTIONAL
                        >= CONFIG.threshold_percent * StoredPower(tx.store, 1))

\* op1 and op2 voted the two ends of the band around their median 100 and finalized
\* the task at threshold 100%: both votes were valid, and their power 80 was compared
\* with itself, not with power_required or with the total power 100 of the operators
C26_Witness ==
    /\ CONFIG.threshold_percent = Percent(100)
    /\ CONFIG.required_percentage = 60
    /\ DOMAIN VOTES = {<<1, "op1">>, <<1, "op2">>}
    /\ VOTES[<<1, "op1">>].price = PriceOf("90")
    /\ VOTES[<<1, "op2">>].price = PriceOf("110")
    /\ Finalized(1)
    /\ messages[1] = <<PriceOf("100")>>


-----------------------------------------------------------------------------
(* Direct calls of process_votes: the operators of the examples, in any      *)
(* order, with prices at, inside and just outside the ends of the allowed    *)
(* and of the slashable band around 100.                                     *)

ProcessPrices == {Percent(7999), 80 * DECIMAL_FRACTIONAL, 90 * DECIMAL_FRACTIONAL,
                  100 * DECIMAL_FRACTIONAL, 110 * DECIMAL_FRACTIONAL,
                  120 * DECIMAL_FRACTIONAL, Percent(12001)}

\* an <<operator, vote>> pair as VOTES lists it
VoteOf(op, price) == <<op, [price |-> price, power |-> InitialPower[op]]>>

\* the non-empty lists of votes of distinct operators, in any order
VoteLists ==
    {vs \in UNION {[1..k -> {VoteOf(op, p) : op \in ExampleOperators, p \in ProcessPrices}] :
                       k \in 1..Cardinality(ExampleOperators)} :
        \A i, j \in 1..Len(vs) : vs[i][1] = vs[j][1] => i = j}

\* the thresholds of the unit tests of process_votes
ProcessThresholds == {Percent(33), Percent(80), Percent(100)}

\* total_power is the power of the listed votes, or the 100 the unit tests pass
InitProcessVotes ==
    DirectCall(UNION {{Call("process_votes",
                            [votes |-> vs, total_power |-> total,
                             config |-> [TestConfig("oracle") EXCEPT !.threshold_percent = th]]) :
                           total \in {SumVotePower(vs), 100}, th \in ProcessThresholds} :
                      vs \in VoteLists})

CallProcessVotes ==
    /\ calc.fn = "process_votes"
    /\ ~calc.returned
    /\ Return(process_votes(calc.args.votes, calc.args.total_power, calc.args.config))

NextProcessVotes == CallProcessVotes

SpecProcessVotes == InitProcessVotes /\ [][NextProcessVotes]_vars

-----------------------------------------------------------------------------
(* C28, C29: process_votes *)

\* the elements of a list
Elements(list) == {list[i] : i \in 1..Len(list)}

\* the operators of a list of votes whose price is strictly outside the band of
\* `spread` around median, the ends being the Decimal products median * (1 -/+ spread)
Outliers(vs, median, spread) ==
    {vs[i][1] : i \in {j \in 1..Len(vs) : \/ vs[j][2].price < DecMul(median, One - spread)
                                          \/ vs[j][2].price > DecMul(median, One + spread)}}

(* C28: process_votes returns the median of the listed prices, and reports as
   slashable, each once, exactly the operators whose price is strictly below
   median*(1-slashable_spread) or strictly above median*(1+slashable_spread);
   a price equal to either bound is not reported, and the report does not
   depend on whether the threshold is met. *)
C28_OutliersStrictlyOutsideBand ==
    Returned("process_votes") =>
        /\ calc.result.median =
               calculate_median([i \in 1..Len(calc.args.votes) |-> calc.args.votes[i][2].price])
        /\ Elements(calc.result.slashable_operators) =
               Outliers(calc.args.votes, calc.result.median, calc.args.config.slashable_spread)
        /\ Len(calc.result.slashable_operators) =
               Cardinality(Elements(calc.result.slashable_operators))

\* median 100, threshold not met: the price 80 on the lower bound is not reported,
\* the price 120.01 is
C28_Witness ==
    /\ Returned("process_votes")
    /\ calc.args.votes = <<VoteOf("op1", 100 * DECIMAL_FRACTIONAL),
                           VoteOf("op2", 80 * DECIMAL_FRACTIONAL),
                           VoteOf("op3", Percent(12001))>>
    /\ calc.result.median = 100 * DECIMAL_FRACTIONAL
    /\ ~calc.result.is_threshold_met
    /\ calc.result.slashable_operators = <<"op3">>

\* the permutations of 1..n
Orders(n) == {f \in [1..n -> 1..n] : \A i, j \in 1..n : f[i] = f[j] => i = j}

(* C29: for every permutation of the list of votes, process_votes returns the
   same median, the same threshold decision and the same set of slashable
   operators. *)
C29_TallyIndependentOfOrder ==
    Returned("process_votes") =>
        \A f \in Orders(Len(calc.args.votes)) :
            LET pv == process_votes([i \in 1..Len(calc.args.votes) |-> calc.args.votes[f[i]]],
                                    calc.args.total_power, calc.args.config)
            IN /\ pv.median = calc.result.median
               /\ pv.is_threshold_met = calc.result.is_threshold_met
               /\ Elements(pv.slashable_operators) = Elements(calc.result.slashable_operators)

\* three votes listed with descending prices and operators out of order
C29_Witness ==
    /\ Returned("process_votes")
    /\ calc.args.votes = <<VoteOf("op3", Percent(12001)),
                           VoteOf("op1", 100 * DECIMAL_FRACTIONAL),
                           VoteOf("op2", 90 * DECIMAL_FRACTIONAL)>>
    /\ calc.args.config.threshold_percent = Percent(80)
    /\ calc.args.total_power = 100
    /\ calc.result = [median |-> 100 * DECIMAL_FRACTIONAL, slashable_operators |-> <<"op3">>,
                      is_threshold_met |-> TRUE]


-----------------------------------------------------------------------------
(* C31: status and tallies of verifier-simple *)

\* the stored tally of result r for task t; nothing is stored before the first vote
TallyOf(options, t, r) == IF Has(options, <<t, r>>) THEN options[<<t, r>>].power ELSE 0

(* C31: in verifier-simple, in every reachable state, a stored task is Open
   exactly when the tally of every result is below power_required and
   Completed exactly when the tally of some result has reached it, and every
   stored tally is the summed power of the stored votes for its result. *)
C31_StatusMatchesTallies ==
    verifier = "simple" =>
        /\ \A t \in DOMAIN TASKS :
               /\ TASKS[t].status = "Open" <=>
                      \A r \in SimpleResults : TallyOf(OPTIONS, t, r) < TASKS[t].power_required
               /\ TASKS[t].status = "Completed" <=>
                      \E r \in SimpleResults : TallyOf(OPTIONS, t, r) >= TASKS[t].power_required
        /\ \A k \in DOMAIN OPTIONS : OPTIONS[k].power = VotePowerFor(VOTES, k[1], k[2])
        /\ \A t \in TaskIds, r \in SimpleResults :
               VotePowerFor(VOTES, t, r) = TallyOf(OPTIONS, t, r)

\* a Completed task with a tally at power_required and a smaller tally of a dissenting vote
C31_Witness ==
    /\ verifier = "simple"
    /\ \E t \in TaskIds, r1, r2 \in SimpleResults :
          /\ Finalized(t)
          /\ TallyOf(OPTIONS, t, r1) >= TASKS[t].power_required
          /\ TallyOf(OPTIONS, t, r2) > 0
          /\ TallyOf(OPTIONS, t, r2) < TASKS[t].power_required


-----------------------------------------------------------------------------
(* C32: the votes behind a Completed task of the oracle verifier *)

\* the summed power of the votes stored for t inside the allowed band around their median
StoredValidPower(votes, t, spread) ==
    SumVotePower(all_votes(VotesInBand(votes, t, StoredMedian(votes, t), spread), t))

\* the votes stored for a Completed task reach power_required, and their valid
\* power over their summed power reaches threshold_percent
C32_CompletedHasQuorum ==
    verifier = "oracle" =>
        \A t \in DOMAIN TASKS :
            TASKS[t].status = "Completed" =>
                /\ StoredPower(CurrentStore, t) >= TASKS[t].power_required
                /\ StoredPower(CurrentStore, t) > 0
                /\ StoredValidPower(VOTES, t, CONFIG.allowed_spread) * DECIMAL_FRACTIONAL
                       >= CONFIG.threshold_percent * StoredPower(CurrentStore, t)

\* a step leaves the votes of a Completed task as they are
C32_CompletedVotesStep ==
    verifier = "oracle" =>
        \A t \in TaskIds :
            Finalized(t) => all_votes(VOTES', t) = all_votes(VOTES, t)

(* C32: in the oracle verifier, in every reachable state, the votes stored for
   a Completed task have summed power >= power_required and their valid power
   (votes inside the allowed band around the median of the stored prices)
   divided by their summed power is >= threshold_percent; and the stored votes
   of a Completed task never change. *)
C32_CompletedTaskKeepsItsQuorum == []C32_CompletedHasQuorum /\ [][C32_CompletedVotesStep]_vars

\* a Completed task whose valid power 80 of 100 is exactly the threshold 80%, while
\* the clock has moved on since the task was created
C32_Witness ==
    /\ verifier = "oracle"
    /\ Instantiated
    /\ CONFIG.threshold_percent = Percent(80)
    /\ \E t \in TaskIds :
          /\ Finalized(t)
          /\ StoredPower(CurrentStore, t) = 100
          /\ StoredValidPower(VOTES, t, CONFIG.allowed_spread) = 80
          /\ height > TASKS[t].created_height


-----------------------------------------------------------------------------
(* Specification of the bands of a deployed configuration: a verifier is     *)
(* instantiated with any message, and calculate_allowed_range is called with *)
(* a spread of the stored configuration, as process_votes calls it.          *)

\* medians of the unit tests of calculate_allowed_range, and the smallest positive Decimal
RangeMedians == {Zero, 1, One, 15 * DECIMAL_FRACTIONAL, 100 * DECIMAL_FRACTIONAL}

CallAllowedRange ==
    /\ Instantiated
    /\ verifier = "oracle"
    /\ \E median \in RangeMedians, spread \in {CONFIG.allowed_spread, CONFIG.slashable_spread} :
          calc' = [Call("calculate_allowed_range", [median |-> median, spread |-> spread])
                       EXCEPT !.returned = TRUE,
                              !.result = calculate_allowed_range(median, spread)]
    /\ UNCHANGED <<verifier, CONFIG, TASKS, VOTES, OPTIONS, SLASHED_OPERATORS, height, powers,
                   changes, queue, messages, answer, plan>>

NextRange == InstantiateAny \/ CallAllowedRange

SpecRange == Init /\ [][NextRange]_vars

-----------------------------------------------------------------------------
(* C34: calculate_allowed_range does not underflow *)

(* C34: for every configuration accepted by validate_percentages,
   calculate_allowed_range called with allowed_spread or slashable_spread
   does not underflow: 1 - spread is not negative (a negative value of the
   model is an underflow of the unsigned Decimal), the lower bound is between
   0 and the median and the upper bound is at least the median. *)
C34_RangeDoesNotUnderflow ==
    Returned("calculate_allowed_range") =>
        /\ One - calc.args.spread >= Zero
        /\ calc.result[1] >= Zero
        /\ calc.result[1] <= calc.args.median
        /\ calc.result[2] >= calc.args.median

\* the unit test calculate_allowed_range_full_spread with a stored slashable_spread
\* of 100%: the range of the median 1 is 0 .. 2
C34_Witness ==
    /\ Returned("calculate_allowed_range")
    /\ CONFIG.slashable_spread = One
    /\ calc.args = [median |-> One, spread |-> One]
    /\ calc.result = <<Zero, 2 * One>>


-----------------------------------------------------------------------------
(* Specification of the spreads: the oracle verifier is instantiated with    *)
(* any message while task 1 is open, and the operators of the examples       *)
(* submit prices around 100 in any order.                                    *)

SpreadResults == {"90", "100", "110", "150"}

InitSpreads ==
    /\ verifier = "oracle"
    /\ CONFIG = <<>>
    /\ TASKS = EmptyMap
    /\ VOTES = EmptyMap
    /\ OPTIONS = EmptyMap
    /\ SLASHED_OPERATORS = {}
    /\ height = 1
    /\ powers = [h \in 1..MaxHeight |-> InitialPower]
    /\ changes = 0
    /\ queue = Save(EmptyMap, 1, OpenTask)
    /\ messages = [t \in TaskIds |-> <<>>]
    /\ answer = NoAnswer
    /\ calc = NoCalc
    /\ plan = NoPlan

SubmitSpreads == \E op \in ExampleOperators, r \in SpreadResults : ExecutedTask(op, 1, r)

NextSpreads == InstantiateAny \/ SubmitSpreads

SpecSpreads == InitSpreads /\ [][NextSpreads]_vars

-----------------------------------------------------------------------------
(* C33: the slashable band contains the allowed band *)

\* the operators whose stored vote for t is inside the band of `spread` around median
VotersInBand(votes, t, median, spread) ==
    {k[2] : k \in DOMAIN VotesInBand(votes, t, median, spread)}

(* C33: for every configuration accepted by validate_percentages, in every
   aggregation the slashable band contains the allowed band, no operator whose
   vote is inside the allowed band is reported as slashable by process_votes,
   and the call adds no such operator to SLASHED_OPERATORS. *)
C33_ValidVoteNeverFlagged ==
    Instantiated =>
        \A op \in ExampleOperators, r \in SpreadResults :
            LET tx == Transaction(op, 1, r)
                pv == Aggregate(tx.store, 1)
                allowed == calculate_allowed_range(pv.median, CONFIG.allowed_spread)
                slashable == calculate_allowed_range(pv.median, CONFIG.slashable_spread)
                valid == VotersInBand(tx.store.VOTES, 1, pv.median, CONFIG.allowed_spread)
            IN (StoredVote(tx, 1, op) /\ AggregationRuns(tx.store, 1)) =>
                   /\ slashable[1] <= allowed[1]
                   /\ allowed[2] <= slashable[2]
                   /\ Elements(pv.slashable_operators) \cap valid = {}
                   /\ (tx.store.SLASHED_OPERATORS \ SLASHED_OPERATORS) \cap valid = {}

\* allowed_spread 1%, slashable_spread 10%, votes 100, 110 and 150: the task is
\* finalized at 110 by the one valid vote, the vote 100 is neither valid nor flagged,
\* and only the operator that voted 150 is flagged
C33_Witness ==
    /\ Instantiated
    /\ CONFIG.allowed_spread = Percent(1)
    /\ CONFIG.slashable_spread = Percent(10)
    /\ Finalized(1)
    /\ messages[1] = <<PriceOf("110")>>
    /\ VotersInBand(VOTES, 1, PriceOf("110"), CONFIG.allowed_spread) = {"op2"}
    /\ Has(VOTES, <<1, "op1">>)
    /\ SLASHED_OPERATORS = {"op3"}


-----------------------------------------------------------------------------
(* C35: the divisor of the valid-power ratio *)

(* C35: in the oracle verifier no executed_task call divides by zero: every
   call that reaches the aggregation has stored a vote of non-zero power, so
   the summed power of the stored votes, the divisor handed to
   is_threshold_met, is greater than zero, also when power_required is 0. *)
C35_DivisorIsPositive ==
    (Instantiated /\ verifier = "oracle") =>
        \A t \in TaskIds, op \in Senders, r \in OracleResults :
            LET tx == Transaction(op, t, r)
            IN /\ tx.outcome # "DivideByZero"
               /\ tx.outcome \in {"Completed", "ThresholdNotMet"} =>
                      /\ tx.store.VOTES[<<t, op>>].power > 0
                      /\ StoredPower(tx.store, t) > 0

\* power_required is 0 and the task was finalized by the first vote, while a sender
\* without voting power at the height the task was created has no stored vote
C35_Witness ==
    /\ verifier = "oracle"
    /\ Instantiated
    /\ \E t \in TaskIds, op \in Senders :
          /\ Finalized(t)
          /\ TASKS[t].power_required = 0
          /\ Len(all_votes(VOTES, t)) = 1
          /\ VotingPowerAtHeight(powers, op, TASKS[t].created_height) = 0
          /\ ~Has(VOTES, <<t, op>>)


-----------------------------------------------------------------------------
(* C36: the tallies task_info reports *)

\* the results voted for t, each with the summed power of its voters
TalliesOfTask(votes, t) ==
    {[result |-> r, power |-> VotePowerFor(votes, t, r)] :
         r \in {x \in SimpleResults :
                   \E op \in Senders : Has(votes, <<t, op>>) /\ votes[<<t, op>>].result = x}}

\* a task_info query for t answers with the tallies of t
C36_QueryStep ==
    \A t \in TaskIds :
        QueryTaskInfo(t) => answer'.response.tallies = TalliesOfTask(VOTES, t)

(* C36: the tallies of a task_info(task_contract, task_id) response are the
   results voted for that task, each with the summed power of its voters, and
   no result voted for another task appears in it. *)
C36_TaskInfoTalliesOfThatTask == [][C36_QueryStep]_vars


-----------------------------------------------------------------------------
(* Specification of a planned vote: verifier-simple is deployed with a       *)
(* required_percentage above 50, task 1 is open for the whole run, every     *)
(* operator has decided which result it submits, and the operators submit    *)
(* once each, in any order.                                                  *)

\* the power tables of the planned votes: the 50/30/20 of the tests, and near-equal powers
PlanPowers == {InitialPower,
               [o \in Senders |->
                   CASE o = "op1" -> 34 [] o = "op2" -> 33 [] o = "op3" -> 33 [] OTHER -> 0]}

\* the results the operators choose from
PlanResults == {"a", "b"}

PlanPercentages == 51..100

InitPlan ==
    /\ verifier = "simple"
    /\ CONFIG \in {[required_percentage |-> p] : p \in PlanPercentages}
    /\ TASKS = EmptyMap
    /\ VOTES = EmptyMap
    /\ OPTIONS = EmptyMap
    /\ SLASHED_OPERATORS = {}
    /\ height = 1
    /\ powers \in {[h \in 1..MaxHeight |-> pw] : pw \in PlanPowers}
    /\ changes = 0
    /\ queue = Save(EmptyMap, 1, OpenTask)
    /\ messages = [t \in TaskIds |-> <<>>]
    /\ answer = NoAnswer
    /\ calc = NoCalc
    /\ plan \in {[result |-> a, submitted |-> {}] : a \in [ExampleOperators -> PlanResults]}

\* an operator that has not submitted yet submits the result it decided on
SubmitPlanned ==
    \E op \in ExampleOperators \ plan.submitted :
        /\ ExecutedTaskCall(op, 1, plan.result[op])
        /\ plan' = [plan EXCEPT !.submitted = @ \cup {op}]

NextPlan == SubmitPlanned

SpecPlan == InitPlan /\ [][NextPlan]_vars

-----------------------------------------------------------------------------
(* C37: the order of submission does not decide the result *)

\* the power, at the height task 1 was created, of the operators that decided on r
PlannedPower(r) ==
    SumPowers([op \in Senders |->
                  IF op \in ExampleOperators /\ plan.result[op] = r
                  THEN VotingPowerAtHeight(powers, op, queue[1].created_height) ELSE 0],
              Senders)

\* the results whose supporters reach power_required
PlannedWinners ==
    {r \in PlanResults :
        PlannedPower(r) >= PowerRequired(TotalPowerAtHeight(powers, queue[1].created_height),
                                          CONFIG.required_percentage)}

(* C37: in verifier-simple with required_percentage above 50 and one result
   decided per operator, at most one result has supporters that reach
   power_required; whatever the order of the submissions, a finalized task
   carries that result, and once all operators have submitted the task is
   finalized exactly when such a result exists. *)
C37_OrderDoesNotDecideResult ==
    /\ Cardinality(PlannedWinners) <= 1
    /\ Finalized(1) => \E r \in PlannedWinners : messages[1] = <<r>>
    /\ ~Finalized(1) => messages[1] = <<>>
    /\ plan.submitted = ExampleOperators => (Finalized(1) <=> PlannedWinners # {})

\* required_percentage 51 and powers 50/30/20: op1 and op2 decided on "a", op3 on
\* "b"; the vote of op3 was stored before the task was finalized with "a"
C37_Witness ==
    /\ CONFIG.required_percentage = 51
    /\ powers[1] = InitialPower
    /\ plan.result = [op \in ExampleOperators |-> IF op = "op3" THEN "b" ELSE "a"]
    /\ plan.submitted = ExampleOperators
    /\ Has(VOTES, <<1, "op3">>)
    /\ Finalized(1)
    /\ messages[1] = <<"a">>


-----------------------------------------------------------------------------
(* Specifications of a unanimous vote: a verifier is deployed with an        *)
(* accepted configuration, task 1 was created at height 1 and stays open for *)
(* the whole run, and every operator with power at that height submits the   *)
(* same result, once each and in any order, while blocks pass and the        *)
(* operators contract changes an operator's power.  Every operator does      *)
(* submit: the submissions are weakly fair.                                  *)

\* the operators with voting power at the height task 1 was created
Voters == {op \in Senders : InitialPower[op] > 0}

\* every voter decided on result r
Unanimous(r) == [result |-> [op \in Voters |-> r], submitted |-> {}]

InitUnanimous(v, configs, results) ==
    /\ verifier = v
    /\ CONFIG \in configs
    /\ TASKS = EmptyMap
    /\ VOTES = EmptyMap
    /\ OPTIONS = EmptyMap
    /\ SLASHED_OPERATORS = {}
    /\ height = 1
    /\ powers = [h \in 1..MaxHeight |-> InitialPower]
    /\ changes = 0
    /\ queue = Save(EmptyMap, 1, OpenTask)
    /\ messages = [t \in TaskIds |-> <<>>]
    /\ answer = NoAnswer
    /\ calc = NoCalc
    /\ plan \in {Unanimous(r) : r \in results}

SubmitUnanimous ==
    \E op \in Voters \ plan.submitted :
        /\ ExecutedTaskCall(op, 1, plan.result[op])
        /\ plan' = [plan EXCEPT !.submitted = @ \cup {op}]

NextUnanimous == SubmitUnanimous \/ NextBlock \/ UpdatePowerStep

\* the configurations verifier-simple accepts
SimpleConfigs ==
    {msg \in ConstructionMsgs("simple") : SimpleInstantiateCheck(msg) = "Ok"}

InitUnanimousSimple == InitUnanimous("simple", SimpleConfigs, PlanResults)

\* what SubmitUnanimous does to plan: a voter that has not submitted does so.
\* The contract answers every call, with Ok or with Err, so a step changes
\* plan this way exactly when it is a SubmitUnanimous step, and one is
\* enabled for as long as a voter is left.
OperatorSubmits ==
    \E op \in Voters \ plan.submitted :
        plan' = [plan EXCEPT !.submitted = @ \cup {op}]

\* every voter gets to submit: the premise of the unanimous-vote claims
SpecUnanimousSimple ==
    InitUnanimousSimple /\ [][NextUnanimous]_vars /\ WF_plan(OperatorSubmits)

-----------------------------------------------------------------------------
(* C38: a unanimous vote finalizes the task in verifier-simple *)

\* the result every voter decided on
UnanimousResult == plan.result[CHOOSE op \in Voters : TRUE]

\* task 1 is Completed and its one Complete message carries the unanimous result
CompletedUnanimously == Finalized(1) /\ messages[1] = <<UnanimousResult>>

(* C38: in verifier-simple, for every required_percentage in 1..100, when
   every operator with power at the task's created_height submits the same
   well-formed result while the task is open, the task is Completed with that
   result at the latest when the last of them has submitted, and it does
   eventually reach that state and stay in it. *)
C38_UnanimousVoteCompletes ==
    /\ [](plan.submitted = Voters => CompletedUnanimously)
    /\ <>[]CompletedUnanimously

\* required_percentage 100: the task is Completed after all three voters submitted,
\* the last of them after its power had been set to 0 for the later heights
C38_Witness ==
    /\ verifier = "simple"
    /\ CONFIG.required_percentage = 100
    /\ plan.submitted = Voters
    /\ CompletedUnanimously
    /\ \E op \in Voters :
          /\ Has(VOTES, <<1, op>>)
          /\ VotingPowerAtHeight(powers, op, height) = 0
    /\ \A op \in Voters : Has(VOTES, <<1, op>>)

-----------------------------------------------------------------------------
(* The unanimous vote on the oracle verifier: it is deployed with any        *)
(* configuration its instantiate accepts, and every voter submits the same   *)
(* non-zero price for task 1.                                                *)

\* the configurations the oracle verifier accepts
OracleConfigs ==
    {msg \in ConstructionMsgs("oracle") : validate_percentages(msg) = "Ok"}

\* the non-zero prices the voters may agree on
UnanimousPrices == {"100", "105"}

InitUnanimousOracle == InitUnanimous("oracle", OracleConfigs, UnanimousPrices)

SpecUnanimousOracle ==
    InitUnanimousOracle /\ [][NextUnanimous]_vars /\ WF_plan(OperatorSubmits)

-----------------------------------------------------------------------------
(* C39: a unanimous price finalizes the task in the oracle verifier *)

\* task 1 is Completed, its one Complete message carries the unanimous price
\* and no operator is flagged
CompletedAtUnanimousPrice ==
    /\ Finalized(1)
    /\ messages[1] = <<PriceOf(UnanimousResult)>>
    /\ SLASHED_OPERATORS = {}

(* C39: in the oracle verifier, for every accepted configuration, when every
   operator with power at the task's created_height has submitted the same
   non-zero price while the task is open, the task is Completed with exactly
   that price as its result and no operator is flagged. *)
C39_UnanimousPriceCompletes == plan.submitted = Voters => CompletedAtUnanimousPrice

====
